---------------------------- MODULE Spec2Model ----------------------------
(***************************************************************************)
(* A model of the environmental-data dashboard: the correlation analyzer   *)
(* (correlation_analysis.py), the AI analysis engine (ai_analysis.py), the *)
(* data connectors (data_connectors.py) and the Streamlit script (app.py). *)
(*                                                                         *)
(* Numbers.  Correlation coefficients are integers in hundredths           *)
(* (-100..100, truncated toward zero), p-values integers in thousandths    *)
(* (0..1000).  NaN is the float NaN: every comparison with it is false.    *)
(***************************************************************************)
EXTENDS Integers, Sequences, FiniteSets, TLC

\* ------------------------------------------------------------------------
\* Arithmetic helpers
\* ------------------------------------------------------------------------

NaN == -9999

None == "<None>"

IsNaN(x) == x = NaN

Abs(x) == IF x < 0 THEN -x ELSE x

Sgn(x) == IF x > 0 THEN 1 ELSE IF x < 0 THEN -1 ELSE 0

Min2(a, b) == IF a <= b THEN a ELSE b

RECURSIVE GCD(_, _)
GCD(a, b) == IF b = 0 THEN a ELSE GCD(b, a % b)

RECURSIVE SeqSum(_)
SeqSum(s) == IF s = << >> THEN 0 ELSE Head(s) + SeqSum(Tail(s))

Range(s) == {s[i] : i \in DOMAIN s}

\* Python float comparisons: false whenever an operand is NaN.
FloatLT(x, y) == ~IsNaN(x) /\ ~IsNaN(y) /\ x < y

FloatGE(x, y) == ~IsNaN(x) /\ ~IsNaN(y) /\ x >= y

FloatGT(x, y) == ~IsNaN(x) /\ ~IsNaN(y) /\ x > y

FloatAbs(x) == IF IsNaN(x) THEN NaN ELSE Abs(x)

\* ------------------------------------------------------------------------
\* The statistics library calls (scipy.stats, pandas.DataFrame.corr), for
\* samples of at most four observations.
\* ------------------------------------------------------------------------

\* n * sum(x*y) - sum(x) * sum(y) on the samples shifted by their first
\* elements (correlation is shift invariant; the shift keeps the sums small).
Shifted(xs) == [i \in DOMAIN xs |-> xs[i] - xs[1]]

CoMoment(xs, ys) ==
    LET dx == Shifted(xs)
        dy == Shifted(ys)
    IN  Len(xs) * SeqSum([i \in DOMAIN xs |-> dx[i] * dy[i]])
          - SeqSum(dx) * SeqSum(dy)

\* The largest k in 0..100 with (k/100)^2 <= num/den, for 0 <= num <= den.
ISqrt100(num, den) ==
    CHOOSE k \in 0..100 :
        /\ k * k * den <= 10000 * num
        /\ (k = 100 \/ (k + 1) * (k + 1) * den > 10000 * num)

\* c / sqrt(vx * vy) in hundredths; NaN when a variance is zero.
Coef100(c, vx, vy) ==
    IF vx = 0 \/ vy = 0 THEN NaN
    ELSE LET gx == GCD(Abs(c), vx)
             gy == GCD(Abs(c), vy)
             num0 == (Abs(c) \div gx) * (Abs(c) \div gy)
             den0 == (vx \div gx) * (vy \div gy)
             g == GCD(num0, den0)
         IN  Sgn(c) * ISqrt100(Min2(num0, den0) \div g, den0 \div g)

\* Pearson's r of two samples of equal length >= 1 (NaN for fewer than two
\* observations or a constant sample).
PearsonCoef(xs, ys) ==
    IF Len(xs) < 2 THEN NaN
    ELSE Coef100(CoMoment(xs, ys), CoMoment(xs, xs), CoMoment(ys, ys))

\* scipy.stats.rankdata (average ranks), doubled to stay integral.
Rank2(xs) ==
    [i \in DOMAIN xs |->
        2 * Cardinality({j \in DOMAIN xs : xs[j] < xs[i]})
          + Cardinality({j \in DOMAIN xs : xs[j] = xs[i]}) + 1]

SpearmanCoef(xs, ys) == PearsonCoef(Rank2(xs), Rank2(ys))

\* Kendall's tau-b.
PairsOf(xs) == {p \in (DOMAIN xs) \X (DOMAIN xs) : p[1] < p[2]}

TiedPairs(xs) == Cardinality({p \in PairsOf(xs) : xs[p[1]] = xs[p[2]]})

ConMinusDis(xs, ys) ==
    LET s(p) == Sgn(xs[p[2]] - xs[p[1]]) * Sgn(ys[p[2]] - ys[p[1]])
    IN  Cardinality({p \in PairsOf(xs) : s(p) > 0})
          - Cardinality({p \in PairsOf(xs) : s(p) < 0})

KendallCoef(xs, ys) ==
    LET tot == Cardinality(PairsOf(xs))
        xtie == TiedPairs(xs)
        ytie == TiedPairs(ys)
    IN  IF tot = xtie \/ tot = ytie THEN NaN
        ELSE Coef100(ConMinusDis(xs, ys), tot - xtie, tot - ytie)

\* 1000 * (1 - 2 asin(k/100) / pi) for k = 0..100: the two-sided p-value of
\* a t statistic with one degree of freedom (three observations).
ArcsineP ==
    << 1000, 994, 987, 981, 975, 968, 962, 955, 949, 943,
       936, 930, 923, 917, 911, 904, 898, 891, 885, 878,
       872, 865, 859, 852, 846, 839, 833, 826, 819, 813,
       806, 799, 793, 786, 779, 772, 766, 759, 752, 745,
       738, 731, 724, 717, 710, 703, 696, 689, 681, 674,
       667, 659, 652, 644, 637, 629, 622, 614, 606, 598,
       590, 582, 574, 566, 558, 550, 541, 533, 524, 515,
       506, 497, 488, 479, 470, 460, 450, 441, 430, 420,
       410, 399, 388, 377, 365, 353, 341, 328, 315, 301,
       287, 272, 256, 240, 222, 202, 181, 156, 128, 90, 0 >>

\* 1000 * erfc(sqrt(k/20)) for k = 0..80: the two-sided normal p-value of a
\* statistic z with z^2 = k/10.
NormalP ==
    << 1000, 752, 655, 584, 527, 480, 439, 403, 371, 343,
       317, 294, 273, 254, 237, 221, 206, 192, 180, 168,
       157, 147, 138, 129, 121, 114, 107, 100, 94, 89,
       83, 78, 74, 69, 65, 61, 58, 54, 51, 48,
       46, 43, 40, 38, 36, 34, 32, 30, 28, 27,
       25, 24, 23, 21, 20, 19, 18, 17, 16, 15,
       14, 14, 13, 12, 11, 11, 10, 10, 9, 9,
       8, 8, 7, 7, 7, 6, 6, 6, 5, 5, 5 >>

\* The two-sided p-value of a coefficient r (hundredths) under the t / beta
\* distribution with n - 2 degrees of freedom.
TTestP(r, n) ==
    IF IsNaN(r) THEN NaN
    ELSE IF n = 3 THEN ArcsineP[Abs(r) + 1]
    ELSE IF n = 4 THEN 1000 - 10 * Abs(r)
    ELSE NaN

\* The outcome of a scipy correlation function: ok is FALSE when it raises.
Raised == [ok |-> FALSE, stat |-> NaN, p |-> NaN]

Returned(stat, p) == [ok |-> TRUE, stat |-> stat, p |-> p]

pearsonr(xs, ys) ==
    IF Len(xs) # Len(ys) \/ Len(xs) < 2 THEN Raised
    ELSE LET r == PearsonCoef(xs, ys)
         IN  IF IsNaN(r) THEN Returned(NaN, NaN)
             ELSE IF Len(xs) = 2 THEN Returned(r, 1000)
             ELSE Returned(r, TTestP(r, Len(xs)))

spearmanr(xs, ys) ==
    IF Len(xs) # Len(ys) THEN Raised
    ELSE IF Len(xs) <= 1 THEN Returned(NaN, NaN)
    ELSE LET r == SpearmanCoef(xs, ys)
         IN  Returned(r, TTestP(r, Len(xs)))

\* kendalltau's exact p-value for untied samples of n <= 4 observations
\* with dis discordant pairs, in thousandths.
KendallExactP(n, dis) ==
    LET tot == (n * (n - 1)) \div 2
        d == Min2(dis, tot - dis)
    IN  IF n = 2 THEN 1000
        ELSE IF n = 3 THEN (IF d = 0 THEN 333 ELSE 1000)
        ELSE IF d = 0 THEN 83 ELSE IF d = 1 THEN 333
        ELSE IF d = 2 THEN 750 ELSE 1000

\* Sums over the groups of equal values of a sample of t(t-1)(t-2) and of
\* t(t-1)(2t+5), t the size of the group.
TieCounts(xs) ==
    [v \in Range(xs) |-> Cardinality({j \in DOMAIN xs : xs[j] = v})]

Tie0(xs) ==
    LET t == TieCounts(xs)
    IN  SeqSum([i \in DOMAIN xs |->
            IF \A j \in 1..(i - 1) : xs[j] # xs[i]
            THEN t[xs[i]] * (t[xs[i]] - 1) * (t[xs[i]] - 2) ELSE 0])

Tie1(xs) ==
    LET t == TieCounts(xs)
    IN  SeqSum([i \in DOMAIN xs |->
            IF \A j \in 1..(i - 1) : xs[j] # xs[i]
            THEN t[xs[i]] * (t[xs[i]] - 1) * (2 * t[xs[i]] + 5) ELSE 0])

\* kendalltau's asymptotic p-value (tied samples, n >= 3):
\* z^2 = s^2 / var, var = (m(2n+5) - x1 - y1)/18 + 2 xtie ytie / m
\*                          + x0 y0 / (9 m (n-2)), m = n(n-1).
KendallAsymptoticP(xs, ys) ==
    LET n == Len(xs)
        m == n * (n - 1)
        s == ConMinusDis(xs, ys)
        den == 18 * m * (n - 2)
        var == (m * (2 * n + 5) - Tie1(xs) - Tie1(ys)) * m * (n - 2)
                 + 36 * TiedPairs(xs) * TiedPairs(ys) * (n - 2)
                 + 2 * Tie0(xs) * Tie0(ys)
        k == (10 * s * s * den) \div var
    IN  IF k >= 80 THEN 0 ELSE NormalP[k + 1]

kendalltau(xs, ys) ==
    IF Len(xs) # Len(ys) THEN Raised
    ELSE IF Len(xs) = 0 THEN Returned(NaN, NaN)
    ELSE LET tau == KendallCoef(xs, ys)
             untied == TiedPairs(xs) = 0 /\ TiedPairs(ys) = 0
             tot == Cardinality(PairsOf(xs))
             dis == (tot - ConMinusDis(xs, ys)) \div 2
         IN  IF IsNaN(tau) THEN Returned(NaN, NaN)
             ELSE IF untied THEN Returned(tau, KendallExactP(Len(xs), dis))
             ELSE Returned(tau, KendallAsymptoticP(xs, ys))

\* ------------------------------------------------------------------------
\* correlation_analysis.py: CorrelationAnalyzer
\* ------------------------------------------------------------------------

\* An empty dict / an empty list.
EmptyDict == << >>

\* The countries of a request, in the order of the data dict.
Countries == << "Singapore", "Malaysia", "Thailand" >>

\* What a country's 'environmental' / 'economic' entry can be: the key is
\* absent, the connector returned None, an empty DataFrame, or a DataFrame
\* with rows.
EntryKinds == {"absent", "None", "empty", "frame"}

\* key in country_data and isinstance(df, pd.DataFrame) and not df.empty
HasFrame(country_data, key) == country_data[key] = "frame"

\* str.lower() on the method names of the model.
Lower(method) ==
    CASE method \in {"Pearson", "pearson", "PEARSON"} -> "pearson"
      [] method \in {"Spearman", "spearman", "SPEARMAN"} -> "spearman"
      [] method \in {"Kendall", "kendall", "KENDALL"} -> "kendall"
      [] OTHER -> method

\* self.correlation_methods: the keys are capitalised.
correlation_methods == {"Pearson", "Spearman", "Kendall"}

\* np.random.normal(loc, scale) for a standard draw z.
Normal(loc, scale, z) == loc + scale * z

\* The value of row_data[var] after lines 229-242: the economic draw when
\* var is also a secondary variable of a country with economic data.
RowValue(cd, pv, sv, var, zenv, zecon) ==
    IF HasFrame(cd, "economic") /\ var \in Range(sv)
    THEN Normal(30000, 5000, zecon)
    ELSE Normal(50, 10, zenv)

\* The variables a dict entry contributes to its row, in insertion order.
RowVars(cd, pv, sv) ==
    LET envVars == IF HasFrame(cd, "environmental") THEN pv ELSE << >>
        econVars == IF HasFrame(cd, "economic") THEN sv ELSE << >>
    IN  envVars \o SelectSeq(econVars, LAMBDA v : v \notin Range(envVars))

\* The distinct elements of a sequence, in order of first appearance.
RECURSIVE Dedup(_)
Dedup(s) ==
    IF s = << >> THEN << >>
    ELSE LET rest == Dedup(SubSeq(s, 1, Len(s) - 1))
             last == s[Len(s)]
         IN  IF last \in Range(rest) THEN rest ELSE Append(rest, last)

RECURSIVE Flatten(_)
Flatten(ss) == IF ss = << >> THEN << >> ELSE Head(ss) \o Flatten(Tail(ss))

\* _prepare_correlation_matrix.  draw[i][role] is the standard normal draw
\* for country i.  ok is FALSE when it raises (data is no dict; a variable
\* list that is None is iterated).  rows holds one row per dict entry: a
\* function from the variables it has to their values; columns are the
\* numeric columns in order of first appearance.
_prepare_correlation_matrix(data, primary_vars, secondary_vars, draw) ==
    IF ~data.isdict THEN [ok |-> FALSE, rows |-> << >>, columns |-> << >>]
    ELSE
      LET idx == SelectSeq([i \in DOMAIN data.items |-> i],
                           LAMBDA i : data.items[i].isdict)
          iterNone ==
            \E k \in DOMAIN idx :
               \/ HasFrame(data.items[idx[k]], "environmental")
                    /\ ~primary_vars.islist
               \/ HasFrame(data.items[idx[k]], "economic")
                    /\ ~secondary_vars.islist
          pv == primary_vars.items
          sv == secondary_vars.items
          rowOf(i) ==
            LET cd == data.items[i]
                vs == RowVars(cd, pv, sv)
            IN  [v \in Range(vs) |->
                   RowValue(cd, pv, sv, v, draw[i].env, draw[i].econ)]
          rows == [k \in DOMAIN idx |-> rowOf(idx[k])]
          cols == Dedup(Flatten([k \in DOMAIN idx |->
                                   RowVars(data.items[idx[k]], pv, sv)]))
      IN  IF iterNone THEN [ok |-> FALSE, rows |-> << >>, columns |-> << >>]
          ELSE [ok |-> TRUE, rows |-> rows, columns |-> cols]

\* DataFrame.empty: no rows or no columns.
Empty(frame) == Len(frame.rows) = 0 \/ Len(frame.columns) = 0

\* frame[col].dropna(): the values of the rows that have the column.
DropNa(frame, col) ==
    LET has == SelectSeq([k \in DOMAIN frame.rows |-> k],
                         LAMBDA k : col \in DOMAIN frame.rows[k])
    IN  [j \in DOMAIN has |-> frame.rows[has[j]][col]]

\* The values of col on the rows that have both col and other.
PairwiseComplete(frame, col, other) ==
    LET has == SelectSeq([k \in DOMAIN frame.rows |-> k],
                         LAMBDA k : {col, other} \subseteq DOMAIN frame.rows[k])
    IN  [j \in DOMAIN has |-> frame.rows[has[j]][col]]

\* DataFrame.corr(method=m): pairwise complete observations.
Corr(frame, m) ==
    LET cols == Range(frame.columns)
        xs(a, b) == PairwiseComplete(frame, a, b)
    IN  [a \in cols |-> [b \in cols |->
           IF m = "pearson" THEN PearsonCoef(xs(a, b), xs(b, a))
           ELSE IF m = "spearman" THEN SpearmanCoef(xs(a, b), xs(b, a))
           ELSE IF a = b THEN 100
           ELSE KendallCoef(xs(a, b), xs(b, a))]]

\* Lines 48-55: the method that computes the correlation matrix.
MatrixMethod(method) ==
    IF Lower(method) = "pearson" THEN "pearson"
    ELSE IF Lower(method) = "spearman" THEN "spearman"
    ELSE IF Lower(method) = "kendall" THEN "kendall"
    ELSE "pearson"

\* Line 265: self.correlation_methods.get(method, pearsonr).
PValueFunction(method) ==
    IF method \in correlation_methods THEN method ELSE "Pearson"

CorrFunc(f, xs, ys) ==
    IF f = "Pearson" THEN pearsonr(xs, ys)
    ELSE IF f = "Spearman" THEN spearmanr(xs, ys)
    ELSE kendalltau(xs, ys)

\* _calculate_correlation_p_values.
_calculate_correlation_p_values(frame, method) ==
    LET cols == Range(frame.columns)
        f == PValueFunction(method)
    IN  [col1 \in cols |-> [col2 \in cols |->
           IF col1 = col2 THEN 0
           ELSE LET r == CorrFunc(f, DropNa(frame, col1), DropNa(frame, col2))
                IN  IF r.ok THEN r.p ELSE 1000]]

\* p_values.get(col1, {}).get(col2, 1.0)
PGet(p_values, col1, col2) ==
    IF col1 \in DOMAIN p_values /\ col2 \in DOMAIN p_values[col1]
    THEN p_values[col1][col2] ELSE 1000

\* The pairs (i, j), i < j, of 1..n in the order the nested loops visit.
RECURSIVE LoopPairs(_, _, _)
LoopPairs(i, j, n) ==
    IF i > n THEN << >>
    ELSE IF j > n THEN LoopPairs(i + 1, i + 2, n)
    ELSE << <<i, j>> >> \o LoopPairs(i, j + 1, n)

\* The entry appended for a strong pair (lines 305-310); variables is the
\* pair that the text "col1 vs col2" names.
CorrelationInfo(col1, col2, corr_value, p_value) ==
    [variables |-> <<col1, col2>>,
     coefficient |-> corr_value,
     p_value |-> p_value,
     strength |-> IF FloatGE(FloatAbs(corr_value), 80)
                  THEN "Strong" ELSE "Moderate"]

\* Line 304 with the threshold excluded.
IsStrongExclusive(corr_value, p_value, threshold) ==
    FloatGT(FloatAbs(corr_value), threshold) /\ FloatLT(p_value, 50)

\* Lines 304 and 312: whether a pair is appended, and to which list.
IsStrong(corr_value, p_value, threshold) ==
    FloatGE(FloatAbs(corr_value), threshold) /\ FloatLT(p_value, 50)

IsPositive(corr_value) == FloatGT(corr_value, 0)

\* _identify_strong_correlations: columns is correlation_matrix.columns.
_identify_strong_correlations(columns, correlation_matrix, p_values, threshold) ==
    LET pairs == LoopPairs(1, 2, Len(columns))
        info(pr) ==
            CorrelationInfo(columns[pr[1]], columns[pr[2]],
                            correlation_matrix[columns[pr[1]]][columns[pr[2]]],
                            PGet(p_values, columns[pr[1]], columns[pr[2]]))
        strong == SelectSeq(pairs,
                    LAMBDA pr : IsStrong(info(pr).coefficient,
                                         info(pr).p_value, threshold))
        pos == SelectSeq(strong, LAMBDA pr : IsPositive(info(pr).coefficient))
        neg == SelectSeq(strong, LAMBDA pr : ~IsPositive(info(pr).coefficient))
    IN  [strong_positive |-> [k \in DOMAIN pos |-> info(pos[k])],
         strong_negative |-> [k \in DOMAIN neg |-> info(neg[k])]]

\* Whether the pair (col1, col2) counts as significant (line 341).
IsSignificant(p_values, col1, col2, alpha) ==
    FloatLT(PGet(p_values, col1, col2), alpha)

\* _assess_statistical_significance counting every ordered pair.
AssessOrderedPairs(columns, p_values, alpha) ==
    LET cols == Range(columns)
        ordered == {pr \in cols \X cols : pr[1] # pr[2]}
        total_correlations == Cardinality(ordered)
        significant_correlations ==
            Cardinality({pr \in ordered :
                           FloatLT(PGet(p_values, pr[1], pr[2]), alpha)})
    IN  [total_correlations |-> total_correlations,
         significant_correlations |-> significant_correlations,
         significance_rate |->
            IF total_correlations > 0
            THEN [num |-> significant_correlations, den |-> total_correlations]
            ELSE [num |-> 0, den |-> 1],
         alpha_level |-> alpha]

\* _assess_statistical_significance.  significance_rate is the fraction
\* [num, den] of the undivided counts (0 when there is no pair).
_assess_statistical_significance(columns, p_values, alpha) ==
    LET cols == Range(columns)
        ordered == {pr \in cols \X cols : pr[1] # pr[2]}
        total_correlations == Cardinality(ordered)
        significant_correlations ==
            Cardinality({pr \in ordered :
                           IsSignificant(p_values, pr[1], pr[2], alpha)})
    IN  [total_correlations |-> total_correlations \div 2,
         significant_correlations |-> significant_correlations \div 2,
         significance_rate |->
            IF total_correlations > 0
            THEN [num |-> significant_correlations, den |-> total_correlations]
            ELSE [num |-> 0, den |-> 1],
         alpha_level |-> alpha]

\* The dicts returned at lines 39-45 and 83-89.
CorrelationError(message) ==
    [error |-> message,
     correlation_matrix |-> None,
     strong_positive |-> << >>,
     strong_negative |-> << >>,
     p_values |-> EmptyDict]

\* An exception that leaves a function.
Raise(exc) == [raised |-> exc]

IsRaise(r) == "raised" \in DOMAIN r

\* Lines 35-80, the body of the try block: the dict it returns, or the
\* exception that leaves it.
CrossCountryBody(a, draw, now) ==
    LET frame == _prepare_correlation_matrix(a.data, a.primary_vars,
                                             a.secondary_vars, draw)
    IN  IF ~frame.ok THEN Raise("prepare")
        ELSE IF Empty(frame)
        THEN CorrelationError("No sufficient data for correlation analysis")
        ELSE IF a.method = None THEN Raise("method.lower")
        ELSE
          LET correlation_matrix == Corr(frame, MatrixMethod(a.method))
              p_values == _calculate_correlation_p_values(frame, a.method)
              strong == _identify_strong_correlations(
                            frame.columns, correlation_matrix, p_values, 70)
              significance_results ==
                  _assess_statistical_significance(frame.columns, p_values, 50)
          IN  [correlation_matrix |-> correlation_matrix,
               p_values |-> p_values,
               strong_positive |-> strong.strong_positive,
               strong_negative |-> strong.strong_negative,
               significance_results |-> significance_results,
               method_used |-> a.method,
               variables_analyzed |-> frame.columns,
               data_points |-> Len(frame.rows),
               analysis_timestamp |-> now]

\* The handler without its except clause.
CrossCountryUncaught(a, draw, now) == CrossCountryBody(a, draw, now)

\* calculate_cross_country_correlations, as a function of its arguments,
\* of the standard normal draws and of the time of the call: the try
\* block, and the except clause of lines 82-89.
calculate_cross_country_correlations(a, draw, now) ==
    LET out == CrossCountryBody(a, draw, now)
    IN  IF IsRaise(out) THEN CorrelationError("Correlation analysis failed")
        ELSE out

\* A component at rest, or an argument a call does not have.
Idle == [idle |-> TRUE]

\* ------------------------------------------------------------------------
\* AIAnalysisEngine (src/ai_analysis.py)
\*
\* A method is a function of the engine, of its arguments and of what the
\* OpenAI API does with the request; it yields the engine and the caller's
\* data as the call leaves them, the request it sent and what it returned.
\* ------------------------------------------------------------------------

\* __init__, lines 15-16: the two fields of the engine.
AIAnalysisEngine ==
    [openai_client |-> "OpenAI(OPENAI_API_KEY)", model |-> "gpt-5"]

PyDict(d) == [type |-> "dict", value |-> d]

PyList(l) == [type |-> "list", value |-> l]

\* d[k] = v on a dict.
SetItem(d, k, v) == [x \in (DOMAIN d) \cup {k} |-> IF x = k THEN v ELSE d[x]]

\* str.upper() on the source names of the model.
Upper(s) ==
    CASE s = "weather" -> "WEATHER"
      [] s = "psi" -> "PSI"
      [] s = "economic" -> "ECONOMIC"
      [] OTHER -> s

\* list(data.keys())
Keys(data) == [i \in DOMAIN data.items |-> data.items[i].name]

\* Lines 302-317: the summary line of one dataset.
SummaryPart(item) ==
    [source |-> Upper(item.name),
     text |-> CASE item.dataset = "None" -> "No data available"
                [] item.dataset = "empty_frame" -> "Empty dataset"
                [] item.dataset = "frame" ->
                       "Shape, Columns, Date range, Sample data"
                [] OTHER -> "str(dataset)[:200]..."]

\* Lines 289-319.  data.items() throws when data is no dict, and
\* source_name.upper() when a key is no string; data is only read.
_summarize_data_for_ai(data) ==
    IF ~data.isdict THEN Raise("AttributeError: items")
    ELSE IF \E i \in DOMAIN data.items : ~data.items[i].isstr
    THEN Raise("AttributeError: upper")
    ELSE [text |-> [i \in DOMAIN data.items |-> SummaryPart(data.items[i])]]

\* Lines 321-331.
_summarize_query_results(query_results) ==
    _summarize_data_for_ai(query_results)

NoRequest == [sent |-> FALSE]

\* The arguments of self.openai_client.chat.completions.create.
ChatRequest(self, system, prompt) ==
    [sent |-> TRUE,
     client |-> self.openai_client,
     model |-> self.model,
     system |-> system,
     user |-> prompt,
     response_format |-> "json_object"]

\* chat.completions.create: the API raises, or answers with a message.
create(request, reply) ==
    IF reply.raises THEN Raise("APIError")
    ELSE [content |-> reply.content]

\* The last pair of a JSON object text that carries the key.
LastIndexOf(pairs, k) ==
    CHOOSE i \in DOMAIN pairs :
        /\ pairs[i][1] = k
        /\ \A j \in DOMAIN pairs : pairs[j][1] = k => j <= i

\* json.loads: None and text that is no JSON throw, an array gives a
\* list, an object gives a dict in which the last of equal keys wins.
json_loads(content) ==
    CASE content.kind = "none" -> Raise("TypeError: JSON object must be str")
      [] content.kind = "invalid" -> Raise("JSONDecodeError")
      [] content.kind = "array" -> PyList(<< >>)
      [] OTHER ->
           PyDict([k \in {content.pairs[i][1] : i \in DOMAIN content.pairs}
                     |-> content.pairs[LastIndexOf(content.pairs, k)][2]])

\* Lines 67-82, 144-159, 208-223, 265-280: send the request and decode
\* the content of the first choice.
Completion(request, reply) ==
    LET response == create(request, reply)
    IN  IF IsRaise(response) THEN response
        ELSE json_loads(response.content)

\* What a call leaves behind and returns.
Outcome(self, data, request, result) ==
    [self |-> self, data |-> data, request |-> request, result |-> result]

\* Lines 96-102.
AnalysisDefault(e) ==
    PyDict([error |-> "AI analysis failed: " \o e,
            hypothesis_assessment |-> "Analysis could not be completed",
            interpretation |->
                "Please check data availability and try again.",
            confidence_score |-> 0,
            data_points |-> 0])

\* Lines 37-65.
AnalysisPrompt(a, data_summary) ==
    [task |-> "HYPOTHESIS TO TEST",
     hypothesis |-> a.hypothesis,
     analysis_type |-> a.analysis_type,
     confidence_level |-> a.confidence_level,
     data_summary |-> data_summary]

\* Lines 85-91.
AnalysisMetadata(a, timestamp) ==
    [timestamp |-> timestamp,
     hypothesis |-> a.hypothesis,
     analysis_type |-> a.analysis_type,
     confidence_level |-> a.confidence_level,
     data_sources |-> Keys(a.data)]

\* analyze_hypothesis with a fallback model chosen after a failed request.
AnalyzeHypothesisFallbackModel(self, a, reply, timestamp) ==
    LET data_summary == _summarize_data_for_ai(a.data)
        request == ChatRequest(self, "environmental data scientist",
                               AnalysisPrompt(a, data_summary.text))
        analysis_result == Completion(request, reply)
    IN  IF IsRaise(data_summary)
        THEN Outcome(self, a.data, NoRequest,
                     AnalysisDefault(data_summary.raised))
        ELSE IF IsRaise(analysis_result)
        THEN Outcome([self EXCEPT !.model = "gpt-4o"], a.data, request,
                     AnalysisDefault(analysis_result.raised))
        ELSE IF analysis_result.type # "dict"
        THEN Outcome(self, a.data, request,
                     AnalysisDefault("TypeError: list indices"))
        ELSE Outcome(self, a.data, request,
                     PyDict(SetItem(analysis_result.value,
                                    "analysis_metadata",
                                    AnalysisMetadata(a, timestamp))))

\* Lines 18-102.  The item assignment of line 85 throws when the decoded
\* JSON is no object.
analyze_hypothesis(self, a, reply, timestamp) ==
    LET data_summary == _summarize_data_for_ai(a.data)
        request == ChatRequest(self, "environmental data scientist",
                               AnalysisPrompt(a, data_summary.text))
        analysis_result == Completion(request, reply)
    IN  IF IsRaise(data_summary)
        THEN Outcome(self, a.data, NoRequest,
                     AnalysisDefault(data_summary.raised))
        ELSE IF IsRaise(analysis_result)
        THEN Outcome(self, a.data, request,
                     AnalysisDefault(analysis_result.raised))
        ELSE IF analysis_result.type # "dict"
        THEN Outcome(self, a.data, request,
                     AnalysisDefault("TypeError: list indices"))
        ELSE Outcome(self, a.data, request,
                     PyDict(SetItem(analysis_result.value,
                                    "analysis_metadata",
                                    AnalysisMetadata(a, timestamp))))

\* Lines 162-167.
ParseDefault(e) ==
    PyDict([error |-> "Query parsing failed: " \o e,
            data_sources |-> << >>,
            variables |-> << >>,
            analysis_type |-> "unknown"])

\* Lines 118-142.  date_range[0] and date_range[1] throw when date_range
\* is None or has fewer than two elements.
ParsePrompt(a) ==
    IF ~a.date_range.istuple THEN Raise("TypeError: not subscriptable")
    ELSE IF Len(a.date_range.items) < 2 THEN Raise("IndexError")
    ELSE [task |-> "Parse the following natural language query",
          query |-> a.query,
          countries |-> a.countries,
          date_from |-> a.date_range.items[1],
          date_to |-> a.date_range.items[2]]

\* parse_natural_language_query without its except clause.
ParseQueryUncaught(self, a, reply) ==
    LET prompt == ParsePrompt(a)
        request == ChatRequest(self, "expert in parsing queries", prompt)
        parsed == Completion(request, reply)
    IN  IF IsRaise(prompt) THEN Outcome(self, Idle, NoRequest, prompt)
        ELSE Outcome(self, Idle, request, parsed)

\* Lines 104-167.
parse_natural_language_query(self, a, reply) ==
    LET prompt == ParsePrompt(a)
        request == ChatRequest(self, "expert in parsing queries", prompt)
        parsed == Completion(request, reply)
    IN  IF IsRaise(prompt)
        THEN Outcome(self, Idle, NoRequest, ParseDefault(prompt.raised))
        ELSE IF IsRaise(parsed)
        THEN Outcome(self, Idle, request, ParseDefault(parsed.raised))
        ELSE Outcome(self, Idle, request, parsed)

\* Lines 226-231.
ResponseDefault(e) ==
    PyDict([error |-> "Response generation failed: " \o e,
            insights |->
                "Unable to generate insights from the provided data.",
            key_findings |-> << >>,
            recommendations |-> << >>])

\* Lines 186-206.
ResponsePrompt(a, results_summary) ==
    [task |-> "Generate a comprehensive response",
     original_query |-> a.original_query,
     output_format |-> a.output_format,
     results_summary |-> results_summary]

\* generate_query_response recording the output format in what it returns.
GenerateQueryResponseAnnotated(self, a, reply) ==
    LET results_summary == _summarize_query_results(a.query_results)
        request == ChatRequest(self, "environmental data analyst",
                               ResponsePrompt(a, results_summary.text))
        loaded == Completion(request, reply)
    IN  IF IsRaise(results_summary)
        THEN Outcome(self, a.query_results, NoRequest,
                     ResponseDefault(results_summary.raised))
        ELSE IF IsRaise(loaded)
        THEN Outcome(self, a.query_results, request,
                     ResponseDefault(loaded.raised))
        ELSE IF loaded.type # "dict"
        THEN Outcome(self, a.query_results, request, loaded)
        ELSE Outcome(self, a.query_results, request,
                     PyDict(SetItem(loaded.value, "output_format",
                                    a.output_format)))

\* Lines 169-231.
generate_query_response(self, a, reply) ==
    LET results_summary == _summarize_query_results(a.query_results)
        request == ChatRequest(self, "environmental data analyst",
                               ResponsePrompt(a, results_summary.text))
        loaded == Completion(request, reply)
    IN  IF IsRaise(results_summary)
        THEN Outcome(self, a.query_results, NoRequest,
                     ResponseDefault(results_summary.raised))
        ELSE IF IsRaise(loaded)
        THEN Outcome(self, a.query_results, request,
                     ResponseDefault(loaded.raised))
        ELSE Outcome(self, a.query_results, request, loaded)

\* Lines 283-287.
InsightsDefault(e) ==
    PyDict([error |-> "Insights generation failed: " \o e,
            overall_environmental_status |->
                "Unable to assess with current data",
            data_confidence |-> 0])

\* Lines 246-263.
InsightsPrompt(data_summary) ==
    [task |-> "Analyze the following Southeast Asian environmental data",
     data_summary |-> data_summary]

\* Lines 233-287.
generate_environmental_insights(self, a, reply) ==
    LET data_summary == _summarize_data_for_ai(a.data)
        request == ChatRequest(self, "senior environmental policy analyst",
                               InsightsPrompt(data_summary.text))
        loaded == Completion(request, reply)
    IN  IF IsRaise(data_summary)
        THEN Outcome(self, a.data, NoRequest,
                     InsightsDefault(data_summary.raised))
        ELSE IF IsRaise(loaded)
        THEN Outcome(self, a.data, request, InsightsDefault(loaded.raised))
        ELSE Outcome(self, a.data, request, loaded)

\* ------------------------------------------------------------------------
\* The data connectors (src/data_connectors.py)
\*
\* A connector method is a sequence of session.get calls, one per
\* endpoint of its plan; the method's position says which request it is
\* about to issue or waiting for.
\* ------------------------------------------------------------------------

\* SingaporeDataConnector.__init__, lines 14-18.
psi_url == "https://api.data.gov.sg/v1/environment/psi"

temperature_url == "https://api.data.gov.sg/v1/environment/air-temperature"

humidity_url == "https://api.data.gov.sg/v1/environment/relative-humidity"

rainfall_url == "https://api.data.gov.sg/v1/environment/rainfall"

\* ASEANDataConnector.__init__, lines 210-221: the countries with a code.
country_codes ==
    {"Singapore", "Malaysia", "Thailand", "Indonesia", "Philippines",
     "Vietnam", "Myanmar", "Cambodia", "Laos", "Brunei"}

\* Lines 224-234: the indicator codes, in the order of the dict.
environmental_indicators ==
    << "EN.ATM.CO2E.KT", "EN.ATM.CO2E.PC", "AG.LND.FRST.ZS",
       "AG.LND.FRST.K2", "EG.ELC.RNEW.ZS", "EG.USE.ELEC.KH.PC",
       "SP.URB.TOTL.IN.ZS", "EN.ATM.PM25.MC.M3", "EG.FEC.RNEW.ZS" >>

\* Lines 329-334.
climate_indicators ==
    << "EN.ATM.CO2E.KT", "EN.ATM.PM25.MC.M3", "AG.LND.FRST.ZS",
       "SP.URB.TOTL.IN.ZS" >>

\* Lines 250-253: the selected countries that have a code.
country_codes_list(countries) ==
    {i \in DOMAIN countries : countries[i] \in country_codes}

\* The endpoints a call requests when every request is answered, in the
\* order of the code; none when the call returns before its first request
\* (lines 255-256, 323-324) or throws there (a countries argument that is
\* no list, a date_range with fewer than two elements).
Plan(call) ==
    CASE call.method = "get_weather_data" ->
           << temperature_url, humidity_url, rainfall_url >>
      [] call.method = "get_psi_data" -> << psi_url >>
      [] call.method = "get_environmental_indicators" ->
           IF ~call.countries.islist THEN << >>
           ELSE IF country_codes_list(call.countries.items) = {} THEN << >>
           ELSE environmental_indicators
      [] OTHER ->
           IF call.country \notin country_codes THEN << >>
           ELSE IF ~call.date_range.istuple THEN << >>
           ELSE IF Len(call.date_range.items) < 2 THEN << >>
           ELSE climate_indicators

\* What session.get and the server do with a request: the call raises a
\* RequestException (timeout, connection error), or a response arrives
\* with a status other than 200, or with status 200 and a body that is no
\* JSON, JSON without data, JSON with data, or JSON of another shape.
ResponseKinds ==
    {"exception", "non200", "bad_json", "ok_empty", "ok_items", "malformed"}

\* What the method does with the outcome of a request: "abort" (an except
\* clause of the method returns None), "skip" (the request failed and the
\* method goes on), "empty" or "records" (the body was parsed).
\* response.json() on a body that is no JSON raises a RequestException
\* subclass or a plain ValueError, depending on the requests release; in
\* get_environmental_indicators the first is skipped by the inner except
\* clause (lines 289-291) and the second ends the call (lines 307-309).
Handle(method, kind) ==
    CASE kind = "ok_empty" -> {"empty"}
      [] kind = "ok_items" -> {"records"}
      [] kind = "malformed" -> {"abort"}
      [] kind = "bad_json" ->
           IF method = "get_environmental_indicators"
           THEN {"skip", "abort"} ELSE {"abort"}
      [] kind = "non200" ->
           IF method = "get_psi_data" THEN {"abort"} ELSE {"skip"}
      [] OTHER ->
           IF method = "get_environmental_indicators"
           THEN {"skip"} ELSE {"abort"}

\* Position of an endpoint in a plan.
IndexOf(plan, e) == CHOOSE i \in DOMAIN plan : plan[i] = e

At(at, i) == [at |-> at, i |-> i]

AtReturn == At("return", 0)

\* A client that issues the next request without waiting for the response.
AfterGetAsync(i, n) == IF i < n THEN At("get", i + 1) ELSE At("wait", i)

\* session.get blocks: after issuing request i the method waits for its
\* response.
AfterGet(i, n) == At("wait", i)

\* A client that reissues a request that failed.
RetryFailed(i, disposition) == IF disposition = "skip" THEN i ELSE i + 1

\* The request issued after request i has been dealt with: the next
\* statement or the next iteration of the loop, whatever the outcome.
AfterResponse(i, disposition) == i + 1

\* None, or the DataFrame of the collected records.
NoneValue == [isnone |-> TRUE, rows |-> << >>]

DataFrame(rows) == [isnone |-> FALSE, rows |-> rows]

\* The endpoints whose records the call collected, in the order of done.
RecordsOf(done) ==
    LET F[k \in 0..Len(done)] ==
            IF k = 0 THEN << >>
            ELSE IF done[k].disposition = "records"
            THEN Append(F[k - 1], done[k].endpoint)
            ELSE F[k - 1]
    IN  F[Len(done)]

\* Lines 92-109, 149-156, 293-302, 366-369: a frame when there are
\* records, None otherwise.
FrameOrNone(records) ==
    IF records = << >> THEN NoneValue ELSE DataFrame(records)

\* ------------------------------------------------------------------------
\* The dashboard (src/app.py)
\*
\* Streamlit runs the script from the top on every page selection and
\* button click; st.session_state is what one run leaves to the next.  A
\* page is a function of the session state and of the inputs of the run;
\* it yields the session state it leaves and what it displayed.
\* ------------------------------------------------------------------------

\* Lines 27-30: the two entries are created empty when they are missing.
InitializeSessionState(ss) ==
    [k \in (DOMAIN ss) \cup {"data_cache", "analysis_results"} |->
        IF k \in DOMAIN ss THEN ss[k] ELSE EmptyDict]

PageRun(ss, view) == [session_state |-> ss, view |-> view]

\* Lines 109-136, 139-151: what the page shows for a source: nothing when
\* the source is not selected, a warning when the connector returned None
\* or an empty frame, an error when drawing the chart throws.
SourceStatus(source, data_sources, frame) ==
    IF source \notin data_sources THEN "not selected"
    ELSE IF frame \in {"None", "empty"} THEN "warning"
    ELSE IF frame = "unplottable" THEN "error"
    ELSE "loaded"

\* A Data Explorer page that keeps the weather frame it fetched.
DataExplorerCaching(ss, data_sources, weather_data, psi_data) ==
    PageRun([ss EXCEPT !.data_cache =
                 SetItem(ss.data_cache, "weather", weather_data)],
            [page |-> "Data Explorer",
             weather |-> SourceStatus("Singapore Weather", data_sources,
                                      weather_data),
             psi |-> SourceStatus("Singapore PSI", data_sources, psi_data)])

\* Lines 98-175: the Data Explorer page fetches the weather and PSI data
\* into local variables and displays them.
DataExplorer(ss, data_sources, weather_data, psi_data) ==
    PageRun(ss,
            [page |-> "Data Explorer",
             weather |-> SourceStatus("Singapore Weather", data_sources,
                                      weather_data),
             psi |-> SourceStatus("Singapore PSI", data_sources, psi_data)])

\* str.strip() on the hypotheses of the model.
Strip(text) == IF text = "   " THEN "" ELSE text

\* Lines 177-274.  The result is stored under the hypothesis at line 268,
\* after the display code; when that code throws (a confidence_score that
\* is no number, recommendations that cannot be iterated) the except
\* clause of line 270 is reached and nothing is stored.
HypothesisTesting(ss, clicked, hypothesis, analysis_result) ==
    IF ~clicked
    THEN PageRun(ss, [page |-> "AI Hypothesis Testing", shown |-> "form"])
    ELSE IF Strip(hypothesis) = ""
    THEN PageRun(ss, [page |-> "AI Hypothesis Testing", shown |-> "warning"])
    ELSE IF ~analysis_result.displayable
    THEN PageRun(ss, [page |-> "AI Hypothesis Testing", shown |-> "error"])
    ELSE PageRun([ss EXCEPT !.analysis_results =
                      SetItem(ss.analysis_results, hypothesis,
                              analysis_result)],
                 [page |-> "AI Hypothesis Testing", shown |-> "results"])

\* Lines 276-366: the correlation page displays the results of the click.
CorrelationPage(ss, clicked, displayed) ==
    PageRun(ss, [page |-> "Correlation Analysis",
                 shown |-> IF clicked THEN displayed ELSE "form"])

\* Lines 368-437: the four tabs of the regional dashboard.
RegionalDashboard(ss, climate) ==
    PageRun(ss, [page |-> "Regional Dashboard", shown |-> climate])

\* Lines 439-545.
CustomQueries(ss, clicked, query, displayed) ==
    PageRun(ss, [page |-> "Custom Queries",
                 shown |-> IF ~clicked THEN "form"
                           ELSE IF Strip(query) = "" THEN "warning"
                           ELSE displayed])

\* ------------------------------------------------------------------------
\* utils (src/utils.py)
\*
\* Dates are counted in days.  A date argument is a datetime, a string or
\* None; a datetime or the date a string denotes is naive or carries a
\* time zone.
\* ------------------------------------------------------------------------

\* A datetime (a pd.Timestamp is one).
DateTime(day, aware) == [type |-> "datetime", day |-> day, aware |-> aware]

\* A string; parseable says whether pd.to_datetime accepts it, day and
\* aware what it denotes.
DateString(day, aware, parseable) ==
    [type |-> "str", day |-> day, aware |-> aware, parseable |-> parseable]

NoDate == [type |-> "NoneType", day |-> 0, aware |-> FALSE]

\* pd.to_datetime on a string.
to_datetime(text) ==
    IF text.parseable THEN DateTime(text.day, text.aware)
    ELSE Raise("ParserError")

\* Lines 24-27: a string argument is parsed, any other is kept.
Parsed(date) == IF date.type = "str" THEN to_datetime(date) ELSE date

\* a > b on two dates: a TypeError for None and between a naive and an
\* aware datetime.
DateGreater(a, b) ==
    IF a.type # "datetime" \/ b.type # "datetime" \/ a.aware # b.aware
    THEN Raise("TypeError")
    ELSE [value |-> a.day > b.day]

DateRange(start_date, end_date) == [start |-> start_date, end |-> end_date]

\* Lines 42-47: the last 30 days.
DefaultDateRange(clock) ==
    DateRange(DateTime(clock - 30, FALSE), DateTime(clock, FALSE))

\* Lines 34-40, on the ordered pair: a start in the future becomes 30 days
\* ago, an end in the future becomes now.
NotInFuture(start_date, end_date, clock) ==
    LET current == DateTime(clock, FALSE)
        start_late == DateGreater(start_date, current)
        end_late == DateGreater(end_date, current)
    IN  IF IsRaise(start_late) \/ IsRaise(end_late) THEN Raise("TypeError")
        ELSE DateRange(IF start_late.value THEN DateTime(clock - 30, FALSE)
                       ELSE start_date,
                       IF end_late.value THEN current ELSE end_date)

\* validate_date_range without the swap of lines 30-31.
ValidateDateRangeUnordered(start_date, end_date, clock) ==
    LET s == Parsed(start_date)
        e == Parsed(end_date)
        ordered == IF IsRaise(s) \/ IsRaise(e) THEN Raise("ParserError")
                   ELSE NotInFuture(s, e, clock)
    IN  IF IsRaise(ordered) THEN DefaultDateRange(clock) ELSE ordered

\* Lines 12-47; clock is what datetime.now() returns during the call.
validate_date_range(start_date, end_date, clock) ==
    LET s == Parsed(start_date)
        e == Parsed(end_date)
        swap == IF IsRaise(s) \/ IsRaise(e) THEN Raise("ParserError")
                ELSE DateGreater(s, e)
        ordered == IF IsRaise(swap) THEN swap
                   ELSE IF swap.value THEN NotInFuture(e, s, clock)
                   ELSE NotInFuture(s, e, clock)
    IN  IF IsRaise(ordered) THEN DefaultDateRange(clock) ELSE ordered

\* Strings whose characters matter are sequences of characters.
UpperCase ==
    << "A", "B", "C", "D", "E", "F", "G", "H", "I", "J", "K", "L", "M",
       "N", "O", "P", "Q", "R", "S", "T", "U", "V", "W", "X", "Y", "Z" >>

LowerCase ==
    << "a", "b", "c", "d", "e", "f", "g", "h", "i", "j", "k", "l", "m",
       "n", "o", "p", "q", "r", "s", "t", "u", "v", "w", "x", "y", "z" >>

IsLetter(c) == c \in Range(UpperCase) \cup Range(LowerCase)

LowerChar(c) ==
    IF c \in Range(UpperCase)
    THEN LowerCase[CHOOSE i \in DOMAIN UpperCase : UpperCase[i] = c]
    ELSE c

UpperChar(c) ==
    IF c \in Range(LowerCase)
    THEN UpperCase[CHOOSE i \in DOMAIN LowerCase : LowerCase[i] = c]
    ELSE c

Whitespace == {" ", "\t", "\n"}

\* str.lower()
str_lower(s) == [i \in DOMAIN s |-> LowerChar(s[i])]

\* str.strip()
str_strip(s) ==
    LET inner == {i \in DOMAIN s : s[i] \notin Whitespace}
    IN  IF inner = {} THEN << >>
        ELSE SubSeq(s, CHOOSE i \in inner : \A j \in inner : i <= j,
                       CHOOSE i \in inner : \A j \in inner : j <= i)

\* str.title(): a letter is upper case after a character that is no
\* letter and at the start, lower case elsewhere.
str_title(s) ==
    [i \in DOMAIN s |->
        IF i = 1 \/ ~IsLetter(s[i - 1]) THEN UpperChar(s[i])
        ELSE LowerChar(s[i])]

\* sub in s
Contains(sub, s) ==
    \E k \in 0..(Len(s) - Len(sub)) : SubSeq(s, k + 1, k + Len(sub)) = sub

\* Lines 59-81, in the order of the dict.
country_mapping ==
    << << << "s", "i", "n", "g", "a", "p", "o", "r", "e" >>,
          << "S", "i", "n", "g", "a", "p", "o", "r", "e" >> >>,
       << << "s", "g" >>,
          << "S", "i", "n", "g", "a", "p", "o", "r", "e" >> >>,
       << << "m", "a", "l", "a", "y", "s", "i", "a" >>,
          << "M", "a", "l", "a", "y", "s", "i", "a" >> >>,
       << << "m", "y" >>,
          << "M", "a", "l", "a", "y", "s", "i", "a" >> >>,
       << << "t", "h", "a", "i", "l", "a", "n", "d" >>,
          << "T", "h", "a", "i", "l", "a", "n", "d" >> >>,
       << << "t", "h" >>,
          << "T", "h", "a", "i", "l", "a", "n", "d" >> >>,
       << << "i", "n", "d", "o", "n", "e", "s", "i", "a" >>,
          << "I", "n", "d", "o", "n", "e", "s", "i", "a" >> >>,
       << << "i", "d" >>,
          << "I", "n", "d", "o", "n", "e", "s", "i", "a" >> >>,
       << << "p", "h", "i", "l", "i", "p", "p", "i", "n", "e", "s" >>,
          << "P", "h", "i", "l", "i", "p", "p", "i", "n", "e", "s" >> >>,
       << << "p", "h" >>,
          << "P", "h", "i", "l", "i", "p", "p", "i", "n", "e", "s" >> >>,
       << << "v", "i", "e", "t", "n", "a", "m" >>,
          << "V", "i", "e", "t", "n", "a", "m" >> >>,
       << << "v", "n" >>,
          << "V", "i", "e", "t", "n", "a", "m" >> >>,
       << << "m", "y", "a", "n", "m", "a", "r" >>,
          << "M", "y", "a", "n", "m", "a", "r" >> >>,
       << << "m", "m" >>,
          << "M", "y", "a", "n", "m", "a", "r" >> >>,
       << << "b", "u", "r", "m", "a" >>,
          << "M", "y", "a", "n", "m", "a", "r" >> >>,
       << << "c", "a", "m", "b", "o", "d", "i", "a" >>,
          << "C", "a", "m", "b", "o", "d", "i", "a" >> >>,
       << << "k", "h" >>,
          << "C", "a", "m", "b", "o", "d", "i", "a" >> >>,
       << << "l", "a", "o", "s" >>,
          << "L", "a", "o", "s" >> >>,
       << << "l", "a" >>,
          << "L", "a", "o", "s" >> >>,
       << << "b", "r", "u", "n", "e", "i" >>,
          << "B", "r", "u", "n", "e", "i" >> >>,
       << << "b", "n" >>,
          << "B", "r", "u", "n", "e", "i" >> >> >>

\* Lines 90-96: the value of the first key that contains the name or is
\* contained in it, the capitalised name when there is none.
PartialMatch(country, normalized) ==
    LET hits == {i \in DOMAIN country_mapping :
                    \/ Contains(country_mapping[i][1], normalized)
                    \/ Contains(normalized, country_mapping[i][1])}
    IN  IF hits = {} THEN str_title(country)
        ELSE country_mapping[CHOOSE i \in hits : \A j \in hits : i <= j][2]

\* Lines 84-96: one name of the list.
StandardName(country) ==
    LET normalized == str_strip(str_lower(country))
        exact == {i \in DOMAIN country_mapping :
                     country_mapping[i][1] = normalized}
    IN  IF exact # {} THEN country_mapping[CHOOSE i \in exact : TRUE][2]
        ELSE PartialMatch(country, normalized)

\* The lists that hold each element of a set once.
ListsOfSet(S) ==
    {l \in [1..Cardinality(S) -> S] : Range(l) = S}

\* standardize_country_names returning the list it built.
StandardizeKeepingDuplicates(countries) ==
    {[i \in DOMAIN countries |-> StandardName(countries[i])]}

\* Lines 49-98: the lists list(set(standardized)) can be; the order of a
\* set of strings varies from run to run.
standardize_country_names(countries) ==
    ListsOfSet({StandardName(countries[i]) : i \in DOMAIN countries})

\* A DataFrame: its columns in order, each with a name, a dtype ("number",
\* "object" or "datetime") and its values, NaN where a value is missing;
\* parseable says whether pd.to_datetime accepts the column.
\* The string of a sequence of characters.
RECURSIVE str_join(_)
str_join(s) == IF s = << >> THEN "" ELSE Head(s) \o str_join(Tail(s))

\* A column of a frame: its name as a sequence of characters, its dtype,
\* its values (NaN where missing) and whether pd.to_datetime accepts it.
Column(name, dtype, values, parseable) ==
    [name |-> name, dtype |-> dtype, values |-> values,
     parseable |-> parseable]

Frame(columns) == [isframe |-> TRUE, columns |-> columns]

NotAFrame == [isframe |-> FALSE, columns |-> << >>]

\* data.shape[0]
RowCount(data) ==
    IF data.columns = << >> THEN 0 ELSE Len(data.columns[1].values)

\* data.empty
FrameEmpty(data) == data.columns = << >> \/ RowCount(data) = 0

\* data.columns
ColumnNames(data) == {data.columns[i].name : i \in DOMAIN data.columns}

\* The values of a column that are present.
NonNull(values) ==
    LET F[k \in 0..Len(values)] ==
            IF k = 0 THEN << >>
            ELSE IF values[k] = NaN THEN F[k - 1]
            ELSE Append(F[k - 1], values[k])
    IN  F[Len(values)]

\* data.isnull().sum().sum()
NullCount(data) ==
    SeqSum([i \in DOMAIN data.columns |->
               Len(data.columns[i].values)
                 - Len(NonNull(data.columns[i].values))])

\* Line 167, in hundredths.
Completeness(data) ==
    LET cells == RowCount(data) * Len(data.columns)
    IN  (100 * (cells - NullCount(data))) \div cells

\* n (n - 1) times the sample variance of the values present.
ScaledVariance(values) ==
    LET xs == NonNull(values)
    IN  Len(xs) * SeqSum([i \in DOMAIN xs |-> xs[i] * xs[i]])
          - SeqSum(xs) * SeqSum(xs)

\* Series.std() > 0; the deviation of fewer than two values is NaN.
StdPositive(values) ==
    Len(NonNull(values)) >= 2 /\ ScaledVariance(values) > 0

\* 100 sqrt(num / den), rounded down.
Sqrt100(num, den) ==
    CHOOSE k \in 0..3000 :
        /\ k * k * den <= 10000 * num
        /\ (k + 1) * (k + 1) * den > 10000 * num

\* 1 / cv = |mean| / std, in hundredths, for a column with std > 0 and a
\* mean other than 0.
InverseCV(values) ==
    LET xs == NonNull(values)
        s == SeqSum(xs)
    IN  Sqrt100(s * s * (Len(xs) - 1), Len(xs) * ScaledVariance(values))

\* The consistency of a column without the cap at 1.
ColumnConsistencyUncapped(values) ==
    IF ~StdPositive(values) THEN 100
    ELSE IF SeqSum(NonNull(values)) = 0 THEN 100
    ELSE InverseCV(values)

\* Lines 175-179, in hundredths: min(1, 1 / cv), with cv = 1 when the mean
\* is 0, and 1.0 for a column whose deviation is not positive.
ColumnConsistency(values) ==
    IF ~StdPositive(values) THEN 100
    ELSE IF SeqSum(NonNull(values)) = 0 THEN 100
    ELSE Min2(100, InverseCV(values))

\* select_dtypes(include=[np.number]).columns
NumericColumns(data) ==
    {i \in DOMAIN data.columns : data.columns[i].dtype = "number"}

\* data[col] is a frame, not a column, when the name occurs twice;
\* comparing its std() with 0 in an if throws.
NameRepeated(data, i) ==
    \E j \in DOMAIN data.columns :
        j # i /\ data.columns[j].name = data.columns[i].name

\* Lines 171-182, in hundredths; np.mean of the column scores.
Consistency(data) ==
    LET cols == NumericColumns(data)
        total == SeqSum([i \in DOMAIN data.columns |->
                     IF i \in cols
                     THEN ColumnConsistency(data.columns[i].values)
                     ELSE 0])
    IN  IF cols = {} THEN [score |-> 50]
        ELSE IF \E i \in cols : NameRepeated(data, i)
        THEN Raise("ValueError")
        ELSE [score |-> total \div Cardinality(cols)]

timestamp_cols == << "timestamp", "datetime", "date", "time" >>

\* Largest and smallest element of a non-empty sequence of numbers.
SeqMax(xs) == CHOOSE x \in Range(xs) : \A y \in Range(xs) : y <= x

SeqMin(xs) == CHOOSE x \in Range(xs) : \A y \in Range(xs) : x <= y

\* Lines 191-196 for one column: the score it sets, 50 when it leaves the
\* default.
ColumnCoverage(column) ==
    LET time_series == NonNull(column.values)
        days == SeqMax(time_series) - SeqMin(time_series)
        expected_points == IF days > 0 THEN days ELSE 1
    IN  IF Len(time_series) > 1
        THEN Min2(100, (100 * Len(time_series)) \div expected_points)
        ELSE 50

\* Lines 185-201: the first of the timestamp columns that is present and
\* that pd.to_datetime accepts decides; a column it rejects is passed over.
TemporalCoverage(data) ==
    LET usable == {k \in DOMAIN timestamp_cols :
                      \E i \in DOMAIN data.columns :
                         /\ str_join(data.columns[i].name)
                               = timestamp_cols[k]
                         /\ data.columns[i].parseable
                         /\ ~NameRepeated(data, i)}
        first == CHOOSE k \in usable : \A j \in usable : k <= j
    IN  IF usable = {} THEN 50
        ELSE ColumnCoverage(
                 data.columns[CHOOSE i \in DOMAIN data.columns :
                                 str_join(data.columns[i].name)
                                   = timestamp_cols[first]])

\* Lines 150-208, in hundredths: 0.0 for an empty frame, 0.5 when the
\* calculation throws, the mean of the three scores otherwise.
calculate_data_quality_score(data) ==
    IF ~data.isframe THEN 50
    ELSE IF FrameEmpty(data) THEN 0
    ELSE LET consistency == Consistency(data)
         IN  IF IsRaise(consistency) THEN 50
             ELSE (Completeness(data) + consistency.score
                     + TemporalCoverage(data)) \div 3

\* A Python value by its class; the class is all isinstance looks at.
PyValue(class) == [class |-> class]

\* A dict with string keys: the function from its keys to its values.
ResponseDict(items) == [class |-> "dict", items |-> items]

\* The second argument of an isinstance call: a class, or a value that is
\* no class (the string 'int').
PyClass(name) == [isclass |-> TRUE, name |-> name]

NotAClass(name) == [isclass |-> FALSE, name |-> name]

\* The classes a class inherits from, itself included; bool is a subclass
\* of int.
ClassMro(class) ==
    IF class = "bool" THEN {"bool", "int", "object"} ELSE {class, "object"}

\* isinstance(value, expected_type); TypeError when expected_type is no
\* class.
isinstance(value, expected_type) ==
    IF ~expected_type.isclass THEN Raise("TypeError")
    ELSE [value |-> expected_type.name \in ClassMro(value.class)]

\* A Dict[str, type] as the sequence of its items, in the order .items()
\* yields them; a value that is no dict has no items method.
Structure(items) == [isdict |-> TRUE, items |-> items]

NotAStructure == [isdict |-> FALSE, items |-> << >>]

\* The body of the loop without the check of lines 316-319.
FieldPresent(response_data, item) == [value |-> TRUE]

\* The type check of line 316 for one item of expected_structure.
FieldTypeChecked(response_data, item) ==
    isinstance(response_data.items[item[1]], item[2])

\* Lines 312-321: the loop from the k-th item of expected_structure on.
RECURSIVE ValidateFrom(_, _, _)
ValidateFrom(response_data, items, k) ==
    IF k > Len(items) THEN [value |-> TRUE]
    ELSE IF items[k][1] \notin DOMAIN response_data.items
    THEN [value |-> FALSE]
    ELSE LET checked == FieldTypeChecked(response_data, items[k])
         IN  IF IsRaise(checked) THEN checked
             ELSE IF ~checked.value THEN [value |-> FALSE]
             ELSE ValidateFrom(response_data, items, k + 1)

\* Lines 297-325.
validate_api_response(response_data, expected_structure) ==
    IF response_data.class # "dict" THEN FALSE
    ELSE IF ~expected_structure.isdict THEN FALSE
    ELSE LET outcome == ValidateFrom(response_data,
                                     expected_structure.items, 1)
         IN  IF IsRaise(outcome) THEN FALSE ELSE outcome.value

\* str.replace(old, new) for strings old and new of one character.
str_replace(s, old, new) ==
    [i \in DOMAIN s |-> IF s[i] = old THEN new ELSE s[i]]

\* Objects live in a heap, a sequence indexed by their references.
\* A second name for the frame in place of a copy.
DataAlias(heap, data) == [heap |-> heap, ref |-> data]

\* Line 115, data.copy(): a new object with the contents of the frame.
DataCopy(heap, data) ==
    [heap |-> Append(heap, heap[data]), ref |-> Len(heap) + 1]

\* Line 118.
StandardizeColumnNames(frame) ==
    Frame([i \in DOMAIN frame.columns |->
              [frame.columns[i] EXCEPT
                  !.name = str_replace(str_replace(str_lower(@), " ", "_"),
                                       "-", "_")]])

\* Lines 121-127: a timestamp column becomes a datetime column when
\* pd.to_datetime accepts it; to_datetime rejects the frame that
\* cleaned_data[col] is when the name occurs twice.
ConvertTimestampColumns(frame) ==
    Frame([i \in DOMAIN frame.columns |->
              IF /\ str_join(frame.columns[i].name) \in Range(timestamp_cols)
                 /\ frame.columns[i].parseable
                 /\ ~NameRepeated(frame, i)
              THEN [frame.columns[i] EXCEPT !.dtype = "datetime"]
              ELSE frame.columns[i]])

\* x > mean + 3 std, for the mean and the deviation of the values present.
AboveUpper(x, values) ==
    LET xs == NonNull(values)
        d == Len(xs) * x - SeqSum(xs)
    IN  d > 0 /\ d * d * (Len(xs) - 1) > 9 * Len(xs) * ScaledVariance(values)

\* x < mean - 3 std
BelowLower(x, values) ==
    LET xs == NonNull(values)
        d == SeqSum(xs) - Len(xs) * x
    IN  d > 0 /\ d * d * (Len(xs) - 1) > 9 * Len(xs) * ScaledVariance(values)

\* Lines 133-139: Series.clip; a missing value stays missing.  A clipped
\* value is the bound rounded to the whole unit inside the bounds.
ClipColumn(values) ==
    IF ~StdPositive(values) THEN values
    ELSE LET xs == NonNull(values)
             upper == CHOOSE u \in SeqMin(xs)..SeqMax(xs) :
                         ~AboveUpper(u, values) /\ AboveUpper(u + 1, values)
             lower == CHOOSE l \in SeqMin(xs)..SeqMax(xs) :
                         ~BelowLower(l, values) /\ BelowLower(l - 1, values)
         IN  [r \in DOMAIN values |->
                 IF values[r] = NaN THEN NaN
                 ELSE IF AboveUpper(values[r], values) THEN upper
                 ELSE IF BelowLower(values[r], values) THEN lower
                 ELSE values[r]]

\* Lines 130-139 from the i-th column on: the frame as the loop leaves it,
\* and whether it threw (line 133, for a name that occurs twice).
RECURSIVE ClipOutliers(_, _)
ClipOutliers(frame, i) ==
    IF i > Len(frame.columns) THEN [frame |-> frame, raised |-> FALSE]
    ELSE IF frame.columns[i].dtype # "number"
    THEN ClipOutliers(frame, i + 1)
    ELSE IF NameRepeated(frame, i) THEN [frame |-> frame, raised |-> TRUE]
    ELSE ClipOutliers(
             Frame([frame.columns EXCEPT
                       ![i].values = ClipColumn(frame.columns[i].values)]),
             i + 1)

\* The elements of a sequence at the positions of a set, in order.
SelectRows(values, rows) ==
    LET F[k \in 0..Len(values)] ==
            IF k = 0 THEN << >>
            ELSE IF k \in rows THEN Append(F[k - 1], values[k])
            ELSE F[k - 1]
    IN  F[Len(values)]

\* Line 142: dropna(how='all'), a new frame.
DropEmptyRows(frame) ==
    LET rows == {r \in 1..RowCount(frame) :
                    \E i \in DOMAIN frame.columns :
                       frame.columns[i].values[r] # NaN}
    IN  Frame([i \in DOMAIN frame.columns |->
                  [frame.columns[i] EXCEPT !.values = SelectRows(@, rows)]])

\* Lines 100-148: the heap after the call and the reference returned.
clean_environmental_data(heap, data) ==
    IF ~heap[data].isframe THEN [heap |-> heap, returned |-> data]
    ELSE IF FrameEmpty(heap[data]) THEN [heap |-> heap, returned |-> data]
    ELSE LET copied == DataCopy(heap, data)
             cleaned_data == copied.ref
             renamed == [copied.heap EXCEPT
                            ![cleaned_data] = StandardizeColumnNames(@)]
             converted == [renamed EXCEPT
                              ![cleaned_data] = ConvertTimestampColumns(@)]
             clipping == ClipOutliers(converted[cleaned_data], 1)
             clipped == [converted EXCEPT ![cleaned_data] = clipping.frame]
         IN  IF clipping.raised THEN [heap |-> clipped, returned |-> data]
             ELSE [heap |-> Append(clipped,
                                   DropEmptyRows(clipped[cleaned_data])),
                   returned |-> Len(clipped) + 1]

\* ------------------------------------------------------------------------
\* export_utils.py: ExportManager
\*
\* A Python object is a record with its kind and its contents; a JSON text
\* is the sequence of its tokens, white space left out.
\* ------------------------------------------------------------------------

PyNone == [kind |-> "NoneType"]

BoolValue(b) == [kind |-> "bool", b |-> b]

IntValue(n) == [kind |-> "int", n |-> n]

\* A float by its repr: "0.87", or "nan", "inf", "-inf".
FloatValue(repr) == [kind |-> "float", repr |-> repr]

StrValue(text) == [kind |-> "str", text |-> text]

ListValue(elems) == [kind |-> "list", elems |-> elems]

TupleValue(elems) == [kind |-> "tuple", elems |-> elems]

\* A dict as the sequence of its items, each a pair of a key and a value.
DictValue(pairs) == [kind |-> "dict", pairs |-> pairs]

\* An item with a string key.
Item(key, value) == << StrValue(key), value >>

\* np.int64 and np.float32 (np.float64 is a Python float).
NumpyInteger(n) == [kind |-> "np.integer", n |-> n]

NumpyFloat32(repr) == [kind |-> "np.floating", repr |-> repr]

\* An array by the list tolist() gives.
NumpyArray(elems) == [kind |-> "np.ndarray", elems |-> elems]

TimestampValue(day) == [kind |-> "pd.Timestamp", day |-> day]

NAValue == [kind |-> "pd.NA"]

SetValue == [kind |-> "set"]

FrameValue == [kind |-> "pd.DataFrame"]

\* datetime.isoformat(), for a time given by its day.
isoformat(day) == ToString(day)

\* The tokens of a JSON text.
Token(t) == [t |-> t, s |-> ""]

StringToken(s) == [t |-> "string", s |-> s]

NumberToken(s) == [t |-> "number", s |-> s]

\* What a call yields when it does not raise.
Value(v) == [value |-> v]

\* _json_serializer, lines 238-252; json.dumps calls it for an object that
\* is no dict, list, tuple, str, int, float, bool or None.  pd.isna of a
\* frame is a frame, whose truth value is ambiguous.
_json_serializer(obj) ==
    CASE obj.kind = "np.integer" -> Value(IntValue(obj.n))
      [] obj.kind = "np.floating" -> Value(FloatValue(obj.repr))
      [] obj.kind = "np.ndarray" -> Value(ListValue(obj.elems))
      [] obj.kind = "pd.Timestamp" -> Value(StrValue(isoformat(obj.day)))
      [] obj.kind = "pd.NA" -> Value(PyNone)
      [] obj.kind = "pd.DataFrame" -> Raise("ValueError: truth value")
      [] OTHER -> Raise("TypeError: not JSON serializable")

\* json.dumps prints a float with float.__repr__, and nan and the
\* infinities as NaN, Infinity and -Infinity (allow_nan is true).
FloatTokens(repr) ==
    CASE repr = "nan" -> << Token("NaN") >>
      [] repr = "inf" -> << Token("Infinity") >>
      [] repr = "-inf" -> << Token("-Infinity") >>
      [] OTHER -> << NumberToken(repr) >>

\* The string json.dumps makes of a dict key; a key that is no str, int,
\* float, bool or None is a TypeError.
KeyToken(key) ==
    CASE key.kind = "str" -> Value(StringToken(key.text))
      [] key.kind = "int" -> Value(StringToken(ToString(key.n)))
      [] OTHER -> Raise("TypeError: keys must be str, int, float, bool or None")

\* The first of a sequence of outcomes that raised.
FirstRaised(outcomes) ==
    outcomes[CHOOSE i \in DOMAIN outcomes :
                /\ IsRaise(outcomes[i])
                /\ \A j \in DOMAIN outcomes : IsRaise(outcomes[j]) => i <= j]

SomeRaised(outcomes) == \E i \in DOMAIN outcomes : IsRaise(outcomes[i])

\* The token sequences of a sequence joined by commas.
RECURSIVE JoinTokens(_)
JoinTokens(parts) ==
    IF parts = << >> THEN << >>
    ELSE IF Len(parts) = 1 THEN parts[1]
    ELSE parts[1] \o << Token(",") >> \o JoinTokens(Tail(parts))

\* json.dumps(obj, default=self._json_serializer): the tokens of the text,
\* or the exception of the first object that cannot be written.
RECURSIVE json_encode(_)
json_encode(obj) ==
    CASE obj.kind = "NoneType" -> Value(<< Token("null") >>)
      [] obj.kind = "bool" ->
           Value(<< Token(IF obj.b THEN "true" ELSE "false") >>)
      [] obj.kind = "int" -> Value(<< NumberToken(ToString(obj.n)) >>)
      [] obj.kind = "float" -> Value(FloatTokens(obj.repr))
      [] obj.kind = "str" -> Value(<< StringToken(obj.text) >>)
      [] obj.kind \in {"list", "tuple"} ->
           LET parts == [i \in DOMAIN obj.elems |-> json_encode(obj.elems[i])]
           IN  IF SomeRaised(parts) THEN FirstRaised(parts)
               ELSE Value(<< Token("[") >>
                            \o JoinTokens([i \in DOMAIN parts |->
                                              parts[i].value])
                            \o << Token("]") >>)
      [] obj.kind = "dict" ->
           LET keys == [i \in DOMAIN obj.pairs |-> KeyToken(obj.pairs[i][1])]
               vals == [i \in DOMAIN obj.pairs |->
                           json_encode(obj.pairs[i][2])]
               both == [k \in 1..(2 * Len(obj.pairs)) |->
                           IF k % 2 = 1 THEN keys[(k + 1) \div 2]
                           ELSE vals[k \div 2]]
           IN  IF SomeRaised(both) THEN FirstRaised(both)
               ELSE Value(<< Token("{") >>
                            \o JoinTokens([i \in DOMAIN obj.pairs |->
                                              << keys[i].value, Token(":") >>
                                                \o vals[i].value])
                            \o << Token("}") >>)
      [] OTHER ->
           LET converted == _json_serializer(obj)
           IN  IF IsRaise(converted) THEN converted
               ELSE json_encode(converted.value)

\* obj.get(key, default): AttributeError for an object that is no dict.
DictGet(obj, key, default) ==
    IF obj.kind # "dict" THEN Raise("AttributeError: get")
    ELSE IF \E i \in DOMAIN obj.pairs : obj.pairs[i][1] = StrValue(key)
    THEN Value(obj.pairs[CHOOSE i \in DOMAIN obj.pairs :
                            obj.pairs[i][1] = StrValue(key)][2])
    ELSE Value(default)

\* obj.get(outer, {}).get(inner, default)
GetGet(obj, outer, inner, default) ==
    LET first == DictGet(obj, outer, DictValue(<< >>))
    IN  IF IsRaise(first) THEN first ELSE DictGet(first.value, inner, default)

\* len(obj)
len(obj) ==
    CASE obj.kind \in {"list", "tuple"} -> Value(Len(obj.elems))
      [] obj.kind = "dict" -> Value(Len(obj.pairs))
      [] OTHER -> Raise("TypeError: len")

\* The except clauses: the document of a failed export.
ErrorDocument(prefix, exception, timestamp_key, clock) ==
    json_encode(DictValue(<<
        Item("error", StrValue(prefix \o exception.raised)),
        Item(timestamp_key, StrValue(isoformat(clock))) >>)).value

\* json.dumps(export_data, indent=2, default=self._json_serializer) in
\* the try, and the except clause when building or writing threw.
DumpOrError(parts, export_data, prefix, timestamp_key, clock) ==
    IF SomeRaised(parts)
    THEN ErrorDocument(prefix, FirstRaised(parts), timestamp_key, clock)
    ELSE LET dumped == json_encode(export_data)
         IN  IF IsRaise(dumped)
             THEN ErrorDocument(prefix, dumped, timestamp_key, clock)
             ELSE dumped.value

\* Lines 16-50.
export_analysis_results(hypothesis, analysis_result, clock) ==
    LET parts == <<
            GetGet(analysis_result, "analysis_metadata", "data_sources",
                   ListValue(<< >>)),
            DictGet(analysis_result, "confidence_score", FloatValue("0.0")),
            DictGet(analysis_result, "data_points", IntValue(0)),
            GetGet(analysis_result, "analysis_metadata", "analysis_type",
                   StrValue("unknown")) >>
        export_data == DictValue(<<
            Item("export_metadata", DictValue(<<
                Item("export_timestamp", StrValue(isoformat(clock))),
                Item("export_type", StrValue("hypothesis_analysis")),
                Item("version", StrValue("1.0")) >>)),
            Item("hypothesis", hypothesis),
            Item("analysis_results", analysis_result),
            Item("data_sources", parts[1].value),
            Item("confidence_assessment", DictValue(<<
                Item("confidence_score", parts[2].value),
                Item("data_points", parts[3].value),
                Item("analysis_method", parts[4].value) >>)) >>)
    IN  DumpOrError(parts, export_data, "Export failed: ",
                    "export_timestamp", clock)

\* Lines 52-86.
export_query_results(query, query_response, output_format, clock) ==
    LET parts == <<
            DictGet(query_response, "insights", StrValue("")),
            DictGet(query_response, "key_findings", ListValue(<< >>)),
            DictGet(query_response, "recommendations", ListValue(<< >>)) >>
        export_data == DictValue(<<
            Item("export_metadata", DictValue(<<
                Item("export_timestamp", StrValue(isoformat(clock))),
                Item("export_type", StrValue("custom_query_results")),
                Item("output_format", output_format),
                Item("version", StrValue("1.0")) >>)),
            Item("original_query", query),
            Item("query_results", query_response),
            Item("insights_summary", parts[1].value),
            Item("key_findings", parts[2].value),
            Item("recommendations", parts[3].value) >>)
    IN  DumpOrError(parts, export_data, "Query export failed: ",
                    "export_timestamp", clock)

\* len(correlation_results.get(key, []))
LenOfGet(obj, key) ==
    LET got == DictGet(obj, key, ListValue(<< >>))
    IN  IF IsRaise(got) THEN got ELSE len(got.value)

\* Lines 88-120.
export_correlation_analysis(correlation_results, clock) ==
    LET parts == <<
            DictGet(correlation_results, "method_used", StrValue("unknown")),
            DictGet(correlation_results, "variables_analyzed", ListValue(<< >>)),
            DictGet(correlation_results, "data_points", IntValue(0)),
            LenOfGet(correlation_results, "strong_positive"),
            LenOfGet(correlation_results, "strong_negative") >>
        export_data == DictValue(<<
            Item("export_metadata", DictValue(<<
                Item("export_timestamp", StrValue(isoformat(clock))),
                Item("export_type", StrValue("correlation_analysis")),
                Item("version", StrValue("1.0")) >>)),
            Item("correlation_analysis", correlation_results),
            Item("summary", DictValue(<<
                Item("method_used", parts[1].value),
                Item("variables_analyzed", parts[2].value),
                Item("total_data_points", parts[3].value),
                Item("strong_correlations_found",
                     IntValue(parts[4].value + parts[5].value)) >>)) >>)
    IN  DumpOrError(parts, export_data, "Correlation export failed: ",
                    "export_timestamp", clock)

\* Lines 256-262: the recommendations of every report.
base_recommendations ==
    <<
        StrValue("Continue monitoring air quality trends across all regions"),
        StrValue("Implement cross-border environmental cooperation initiatives"),
        StrValue("Invest in renewable energy infrastructure development"),
        StrValue("Establish regional environmental data sharing protocols"),
        StrValue("Develop early warning systems for environmental hazards") >>

\* Lines 271-292.
_get_data_sources_info ==
    DictValue(<<
        Item("singapore_data_gov",
            DictValue(<<
                Item("name",
                    StrValue("Singapore Data.gov.sg")),
                Item("url",
                    StrValue("https://data.gov.sg")),
                Item("description",
                    StrValue("Singapore government open data portal")),
                Item("data_types",
                    ListValue(<<
                        StrValue("weather"),
                        StrValue("air_quality"),
                        StrValue("environmental_monitoring") >>)) >>)),
        Item("asean_statistics",
            DictValue(<<
                Item("name",
                    StrValue("ASEAN Statistics Portal")),
                Item("url",
                    StrValue("https://www.aseanstats.org")),
                Item("description",
                    StrValue("Regional statistics for ASEAN member countries")),
                Item("data_types",
                    ListValue(<<
                        StrValue("economic_indicators"),
                        StrValue("demographic_data"),
                        StrValue("trade_statistics") >>)) >>)),
        Item("adb_data_library",
            DictValue(<<
                Item("name",
                    StrValue("Asian Development Bank Data Library")),
                Item("url",
                    StrValue("https://data.adb.org")),
                Item("description",
                    StrValue("Economic and development data for Asia-Pacific")),
                Item("data_types",
                    ListValue(<<
                        StrValue("economic_indicators"),
                        StrValue("development_metrics"),
                        StrValue("climate_data") >>)) >>)) >>)

\* Lines 294-302.
_get_methodology_notes ==
    DictValue(<<
        Item("correlation_analysis",
            StrValue("Pearson, Spearman, and Kendall correlation methods used based on data distribution")),
        Item("statistical_significance",
            StrValue("p-values calculated at 95% confidence level unless otherwise specified")),
        Item("ai_analysis",
            StrValue("OpenAI GPT-5 model used for hypothesis testing and data interpretation")),
        Item("data_quality",
            StrValue("Data quality assessed based on completeness, consistency, and temporal coverage")),
        Item("missing_data",
            StrValue("Missing data handled through appropriate imputation or exclusion methods")) >>)

\* Lines 304-314.
_get_environmental_glossary ==
    DictValue(<<
        Item("PSI",
            StrValue("Pollutant Standards Index - measure of air quality based on pollutant concentrations")),
        Item("EPI",
            StrValue("Environmental Performance Index - composite measure of environmental health and ecosystem vitality")),
        Item("CO2 Emissions",
            StrValue("Carbon dioxide emissions measured in metric tons per capita")),
        Item("Energy Intensity",
            StrValue("Energy consumption per unit of GDP")),
        Item("Renewable Energy Share",
            StrValue("Percentage of total energy consumption from renewable sources")),
        Item("Air Quality Index",
            StrValue("Standardized measure of air pollution levels")),
        Item("Environmental Performance",
            StrValue("Composite measure of environmental outcomes and policy effectiveness")) >>)

\* What a for loop over the object visits; None and numbers are not
\* iterable.
Elements(obj) ==
    CASE obj.kind \in {"list", "tuple"} -> Value(obj.elems)
      [] obj.kind = "dict" ->
           Value([i \in DOMAIN obj.pairs |-> obj.pairs[i][1]])
      [] OTHER -> Raise("TypeError: not iterable")

\* Lines 265-267 from the i-th result on: the recommendations gathered.
\* The recommendations of a result are a list or None in the model.
RECURSIVE ExtendRecommendations(_, _, _)
ExtendRecommendations(recommendations, results, i) ==
    IF i > Len(results) THEN Value(recommendations)
    ELSE LET got == DictGet(results[i], "recommendations", PyNone)
         IN  IF IsRaise(got) THEN got
             ELSE IF got.value.kind = "list"
             THEN ExtendRecommendations(recommendations \o got.value.elems,
                                        results, i + 1)
             ELSE IF got.value.kind = "NoneType"
             THEN ExtendRecommendations(recommendations, results, i + 1)
             ELSE Raise("TypeError: not iterable")

\* set() takes hashable elements only.
Hashable(obj) == obj.kind \notin {"list", "dict", "set", "pd.DataFrame"}

\* Lines 254-269: the lists list(set(recommendations)) can be, or the
\* exception raised.
_generate_report_recommendations(analysis_results) ==
    LET results == Elements(analysis_results)
        gathered == IF IsRaise(results) THEN results
                    ELSE ExtendRecommendations(base_recommendations,
                                               results.value, 1)
    IN  IF IsRaise(gathered) THEN gathered
        ELSE IF \E i \in DOMAIN gathered.value : ~Hashable(gathered.value[i])
        THEN Raise("TypeError: unhashable type")
        ELSE [lists |-> ListsOfSet(Range(gathered.value))]

\* Lines 148-193: the documents the call can return, one for each order
\* of the recommendations.
export_environmental_report(data_summary, analysis_results, time_period, clock) ==
    LET generated == _generate_report_recommendations(analysis_results)
        orders == IF IsRaise(generated) THEN {<< >>} ELSE generated.lists
        total == len(analysis_results)
        parts == <<
            total,
            DictGet(data_summary, "data_coverage", DictValue(<< >>)),
            DictGet(data_summary, "key_indicators", ListValue(<< >>)),
            DictGet(data_summary, "data_quality_score", FloatValue("0.0")),
            IF IsRaise(generated) THEN generated ELSE Value(<< >>) >>
        report_data(recommendations) == DictValue(<<
            Item("report_metadata", DictValue(<<
                Item("report_title",
                     StrValue("Southeast Asia Environmental Analysis Report")),
                Item("generation_timestamp", StrValue(isoformat(clock))),
                Item("time_period", time_period),
                Item("report_version", StrValue("1.0")),
                Item("data_sources", ListValue(<<
                    StrValue("Singapore Data.gov.sg"),
                    StrValue("ASEAN Statistics"),
                    StrValue("ADB Data Library") >>)) >>)),
            Item("executive_summary", DictValue(<<
                Item("total_analyses_conducted", IntValue(total.value)),
                Item("data_coverage", parts[2].value),
                Item("key_environmental_indicators", parts[3].value),
                Item("overall_data_quality", parts[4].value) >>)),
            Item("data_summary", data_summary),
            Item("analysis_results", analysis_results),
            Item("recommendations", ListValue(recommendations)),
            Item("appendices", DictValue(<<
                Item("data_sources_details", _get_data_sources_info),
                Item("methodology_notes", _get_methodology_notes),
                Item("glossary", _get_environmental_glossary) >>)) >>)
    IN  { DumpOrError(parts, report_data(order),
                      "Report generation failed: ", "report_timestamp",
                      clock) : order \in orders }

\* ------------------------------------------------------------------------
\* visualization.py: VisualizationEngine
\*
\* A figure is a record of its title, its traces, its annotations and the
\* number of its threshold lines.  Frames are those of utils.py, with
\* distinct column names; the values of a text column are the indices of
\* its labels in Labels.
\* ------------------------------------------------------------------------

\* __init__, lines 14-19.
color_schemes ==
    [environmental |->
         << "#2E8B57", "#228B22", "#32CD32", "#90EE90", "#98FB98" >>,
     air_quality |->
         << "#FF6B6B", "#FFA500", "#FFD700", "#90EE90", "#32CD32" >>,
     temperature |->
         << "#1E90FF", "#4682B4", "#87CEEB", "#FFA500", "#FF6347" >>,
     regional |->
         << "#FF6B6B", "#4ECDC4", "#45B7D1", "#96CEB4", "#FECA57",
            "#FF9FF3", "#54A0FF" >>]

\* go.Figure() with the layout update_layout gives it.
Figure(title, traces, annotations, lines) ==
    [kind |-> "Figure", title |-> title, traces |-> traces,
     annotations |-> annotations, lines |-> lines]

\* go.Scatter, go.Bar, go.Heatmap
Trace(type, name, x, y, color) ==
    [type |-> type, name |-> name, x |-> x, y |-> y, color |-> color]

Annotation(text, color) == [text |-> text, color |-> color]

\* Lines 459-476.
_create_empty_chart(title, message) ==
    Figure(title, << >>, << Annotation(message, "gray") >>, 0)

\* The cross mark that line 483 puts before the message.
ErrorMark == "[x] "

\* _create_error_chart without its last line: the call returns None.
ErrorChartNotReturned(title, error_message) == [kind |-> "NoneType"]

\* Lines 478-495.
_create_error_chart(title, error_message) ==
    Figure(title, << >>,
           << Annotation(ErrorMark \o error_message, "red") >>, 0)

\* The labels of the text columns of the model, in alphabetical order.
Labels ==
    << << "e", "a", "s", "t" >>,
       << "n", "o", "r", "t", "h" >>,
       << "w", "e", "s", "t" >> >>

\* col in data.columns
HasColumn(data, col) ==
    \E i \in DOMAIN data.columns : str_join(data.columns[i].name) = col

\* data[col]
ColumnOf(data, col) ==
    data.columns[CHOOSE i \in DOMAIN data.columns :
                    str_join(data.columns[i].name) = col]

\* Series.unique(): the values in the order of their first occurrence,
\* a missing value among them.
Unique(values) ==
    LET F[k \in 0..Len(values)] ==
            IF k = 0 THEN << >>
            ELSE IF values[k] \in Range(F[k - 1]) THEN F[k - 1]
            ELSE Append(F[k - 1], values[k])
    IN  F[Len(values)]

\* The rows in which the column has the value; a missing value equals
\* nothing, itself included.
RowsWhere(values, v) ==
    {r \in DOMAIN values : v # NaN /\ values[r] = v}

\* s.replace('_', ' ').title(), as a string.
AxisTitle(s) == str_join(str_title(str_replace(s, "_", " ")))

\* Lines 21-66.
create_time_series(data, time_col, value_col, title) ==
    IF ~data.isframe
    THEN _create_error_chart(title,
             "Error creating time series: " \o "AttributeError: empty")
    ELSE IF \/ FrameEmpty(data)
            \/ ~HasColumn(data, str_join(time_col))
            \/ ~HasColumn(data, str_join(value_col))
    THEN _create_empty_chart(title, "No data available for time series")
    ELSE Figure(title,
                << Trace("scatter", AxisTitle(value_col),
                         ColumnOf(data, str_join(time_col)).values,
                         ColumnOf(data, str_join(value_col)).values,
                         color_schemes.environmental[1]) >>,
                << >>, 0)

\* Lines 88-104 for the i-th region (counted from 1): the trace added, if
\* any, or the exception of region.title() for a region that is no string.
RegionTrace(psi_data, region, i) ==
    LET column == ColumnOf(psi_data, "region")
        rows == RowsWhere(column.values, region)
        colors == color_schemes.air_quality
    IN  IF rows = {} \/ ~HasColumn(psi_data, "psi_24h")
        THEN Value(<< >>)
        ELSE IF column.dtype # "object" THEN Raise("AttributeError: title")
        ELSE Value(<< Trace("scatter",
                            str_join(str_title(Labels[region])),
                            IF HasColumn(psi_data, "timestamp")
                            THEN SelectRows(
                                     ColumnOf(psi_data, "timestamp").values,
                                     rows)
                            ELSE [k \in 1..Cardinality(rows) |-> k - 1],
                            SelectRows(ColumnOf(psi_data, "psi_24h").values,
                                       rows),
                            colors[((i - 1) % Len(colors)) + 1]) >>)

\* Lines 68-127.
create_psi_chart(psi_data) ==
    IF ~psi_data.isframe
    THEN _create_error_chart("Singapore PSI Data",
             "Error creating PSI chart: " \o "AttributeError: empty")
    ELSE IF FrameEmpty(psi_data)
    THEN _create_empty_chart("Singapore PSI Data", "No PSI data available")
    ELSE IF HasColumn(psi_data, "region")
    THEN LET regions == Unique(ColumnOf(psi_data, "region").values)
             added == [i \in DOMAIN regions |->
                          RegionTrace(psi_data, regions[i], i)]
         IN  IF SomeRaised(added)
             THEN _create_error_chart("Singapore PSI Data",
                      "Error creating PSI chart: "
                        \o FirstRaised(added).raised)
             ELSE Figure("Singapore Air Quality (PSI) - 24 Hour",
                         Flatten([i \in DOMAIN added |-> added[i].value]),
                         << >>, 3)
    ELSE Figure("Singapore Air Quality (PSI) - 24 Hour",
                IF HasColumn(psi_data, "psi_24h")
                THEN << Trace("scatter", "Overall",
                              IF HasColumn(psi_data, "timestamp")
                              THEN ColumnOf(psi_data, "timestamp").values
                              ELSE [k \in 1..RowCount(psi_data) |-> k - 1],
                              ColumnOf(psi_data, "psi_24h").values,
                              color_schemes.air_quality[1]) >>
                ELSE << >>,
                << >>, 3)

\* bool(obj) for None, a dict or a list.
Truthy(obj) ==
    CASE obj.kind = "NoneType" -> FALSE
      [] obj.kind = "dict" -> obj.pairs # << >>
      [] OTHER -> obj.elems # << >>

\* The keys of a dict of dicts, and the keys of its dicts in the order of
\* their first occurrence: the columns and the index of pd.DataFrame(d).
OuterKeys(d) == [i \in DOMAIN d.pairs |-> d.pairs[i][1].text]

InnerKeys(d) ==
    Unique(Flatten([i \in DOMAIN d.pairs |-> OuterKeys(d.pairs[i][2])]))

\* corr_df.loc[row, col]: nan where the dict of the column lacks the row.
Cell(d, row, col) ==
    LET inner == d.pairs[CHOOSE i \in DOMAIN d.pairs :
                            d.pairs[i][1].text = col][2]
    IN  IF \E j \in DOMAIN inner.pairs : inner.pairs[j][1].text = row
        THEN inner.pairs[CHOOSE j \in DOMAIN inner.pairs :
                            inner.pairs[j][1].text = row][2]
        ELSE FloatValue("nan")

\* Lines 161-166 for one cell, a coefficient in hundredths: its text and
\* the colour of the text; a cell that is no number cannot be formatted.
CellAnnotation(cell) ==
    CASE cell.kind = "int" ->
           Value(Annotation(ToString(cell.n),
                            IF cell.n > 50 \/ cell.n < -50 THEN "white"
                            ELSE "black"))
      [] cell.kind = "float" -> Value(Annotation(cell.repr, "black"))
      [] OTHER -> Raise("ValueError: Unknown format code 'f'")

\* Lines 129-178.  The matrix is None, a frame, or a dict of dicts or of
\* numbers; a frame has no truth value and pd.DataFrame takes no dict of
\* numbers.
create_correlation_heatmap(correlation_matrix) ==
    IF correlation_matrix.kind = "pd.DataFrame"
    THEN _create_error_chart("Correlation Heatmap",
             "Error creating heatmap: " \o "ValueError: truth value")
    ELSE IF ~Truthy(correlation_matrix)
    THEN _create_empty_chart("Correlation Heatmap",
                             "No correlation data available")
    ELSE IF \E i \in DOMAIN correlation_matrix.pairs :
               correlation_matrix.pairs[i][2].kind # "dict"
    THEN _create_error_chart("Correlation Heatmap",
             "Error creating heatmap: " \o "ValueError: scalar values")
    ELSE LET columns == OuterKeys(correlation_matrix)
             index == InnerKeys(correlation_matrix)
             cells == [k \in 1..(Len(index) * Len(columns)) |->
                          CellAnnotation(
                              Cell(correlation_matrix,
                                   index[((k - 1) \div Len(columns)) + 1],
                                   columns[((k - 1) % Len(columns)) + 1]))]
         IN  IF SomeRaised(cells)
             THEN _create_error_chart("Correlation Heatmap",
                      "Error creating heatmap: " \o FirstRaised(cells).raised)
             ELSE Figure("Environmental Variables Correlation Matrix",
                         << Trace("heatmap", "", columns, index, "RdBu") >>,
                         [k \in DOMAIN cells |-> cells[k].value], 0)

\* np.random.normal(..., n) and np.random.exponential(..., n): the d-th
\* array the call draws, which rng decides.
Sample(rng, d, n) == [k \in 1..n |-> rng[d][((k - 1) % Len(rng[d])) + 1]]

\* np.mean, rounded down.
Mean(values) == SeqSum(values) \div Len(values)

\* The names of the labels of a column; a missing value is nan.
LabelNames(values) ==
    [k \in DOMAIN values |->
        IF values[k] = NaN THEN "nan" ELSE str_join(Labels[values[k]])]

\* Lines 206-236 for the i-th item (counted from 1) of climate_data: the
\* four traces of a country with a frame that is not empty.
CountryTraces(rng, i, country, data) ==
    LET colors == color_schemes.regional
        color == colors[((i - 1) % Len(colors)) + 1]
        temp_data == Sample(rng, 3 * i - 2, 3)
    IN  IF ~data.isframe \/ FrameEmpty(data) THEN << >>
        ELSE << Trace("scatter", country \o " Temp", << 0, 1, 2 >>,
                      temp_data, color),
                Trace("scatter", country \o " Precip", << 0, 1, 2 >>,
                      Sample(rng, 3 * i - 1, 3), color),
                Trace("scatter", country \o " Humidity", << 0, 1, 2 >>,
                      Sample(rng, 3 * i, 3), color),
                Trace("bar", country, << country >>,
                      << Mean(temp_data) >>, color) >>

\* Lines 180-248.  climate_data is None, a dict of frames by country, or
\* a list, which has no items().
create_multi_country_climate_chart(climate_data, rng) ==
    IF ~Truthy(climate_data)
    THEN _create_empty_chart("Regional Climate Comparison",
                             "No climate data available")
    ELSE IF climate_data.kind # "dict"
    THEN _create_error_chart("Regional Climate Comparison",
             "Error creating climate chart: " \o "AttributeError: items")
    ELSE Figure("Regional Climate Patterns Comparison",
                Flatten([i \in DOMAIN climate_data.pairs |->
                            CountryTraces(rng, i,
                                          climate_data.pairs[i][1].text,
                                          climate_data.pairs[i][2])]),
                << >>, 0)

\* Lines 270, 320: the countries of the frame.
ChartCountries(data) ==
    IF HasColumn(data, "country")
    THEN LabelNames(Unique(ColumnOf(data, "country").values))
    ELSE << "Data Available" >>

\* Lines 250-304.
create_energy_emissions_chart(energy_data, rng) ==
    IF ~energy_data.isframe
    THEN _create_error_chart("Energy & Emissions",
             "Error creating energy chart: " \o "AttributeError: empty")
    ELSE IF FrameEmpty(energy_data)
    THEN _create_empty_chart("Energy & Emissions",
                             "No energy data available")
    ELSE LET countries == ChartCountries(energy_data)
             colors == color_schemes.environmental
         IN  Figure("Regional Energy Consumption & CO2 Emissions",
                    << Trace("bar", "Energy Consumption", countries,
                             Sample(rng, 1, Len(countries)), colors[1]),
                       Trace("bar", "CO2 Emissions", countries,
                             Sample(rng, 2, Len(countries)), colors[2]) >>,
                    << >>, 0)

\* Lines 306-363.
create_epi_comparison(epi_data, rng) ==
    IF ~epi_data.isframe
    THEN _create_error_chart("Environmental Performance Index",
             "Error creating EPI chart: " \o "AttributeError: empty")
    ELSE IF FrameEmpty(epi_data)
    THEN _create_empty_chart("Environmental Performance Index",
                             "No EPI data available")
    ELSE LET countries == ChartCountries(epi_data)
             colors == color_schemes.environmental
         IN  Figure("Environmental Performance Index Comparison",
                    << Trace("bar", "Overall EPI Score", countries,
                             Sample(rng, 1, Len(countries)), colors[1]),
                       Trace("bar", "Air Quality Score", countries,
                             Sample(rng, 2, Len(countries)), colors[2]),
                       Trace("bar", "Water Quality Score", countries,
                             Sample(rng, 3, Len(countries)), colors[3]) >>,
                    << >>, 0)

\* groupby('region')['psi_24h'].last(): for each region, in order, the
\* last value present among its rows, nan when there is none.
LastByRegion(psi_data) ==
    LET region == ColumnOf(psi_data, "region").values
        psi == ColumnOf(psi_data, "psi_24h").values
        keys == {region[r] : r \in DOMAIN region} \ {NaN}
        sorted == CHOOSE l \in ListsOfSet(keys) :
                      \A a, b \in DOMAIN l : a < b => l[a] < l[b]
        last(key) ==
            LET present == NonNull(SelectRows(psi, RowsWhere(region, key)))
            IN  IF present = << >> THEN NaN ELSE present[Len(present)]
    IN  [region |-> sorted,
         psi_24h |-> [k \in DOMAIN sorted |-> last(sorted[k])]]

\* Lines 387-390: the colour of a bar; every comparison with nan fails.
BarColor(val) ==
    IF val # NaN /\ val <= 50 THEN "#32CD32"
    ELSE IF val # NaN /\ val <= 100 THEN "#FFD700"
    ELSE IF val # NaN /\ val <= 200 THEN "#FFA500"
    ELSE "#FF6B6B"

\* Lines 365-411.  A text cannot be compared with 50.
create_psi_regional_view(psi_data) ==
    IF ~psi_data.isframe
    THEN _create_error_chart("Regional PSI Overview",
             "Error creating PSI regional chart: "
               \o "AttributeError: empty")
    ELSE IF FrameEmpty(psi_data)
    THEN _create_empty_chart("Regional PSI Overview",
                             "No PSI data available")
    ELSE IF ~(HasColumn(psi_data, "region") /\ HasColumn(psi_data, "psi_24h"))
    THEN _create_empty_chart("Regional PSI Overview",
                             "Invalid PSI data structure")
    ELSE LET latest_psi == LastByRegion(psi_data)
         IN  IF /\ ColumnOf(psi_data, "psi_24h").dtype = "object"
                /\ \E k \in DOMAIN latest_psi.psi_24h :
                      latest_psi.psi_24h[k] # NaN
             THEN _create_error_chart("Regional PSI Overview",
                      "Error creating PSI regional chart: "
                        \o "TypeError: <=")
             ELSE Figure("Current PSI Levels by Region",
                         << Trace("bar", "", latest_psi.region,
                                  latest_psi.psi_24h,
                                  [k \in DOMAIN latest_psi.psi_24h |->
                                      BarColor(latest_psi.psi_24h[k])]) >>,
                         << >>, 0)

\* isinstance(chart_data, dict) and 'x' in chart_data and 'y' in chart_data
HasSeries(chart_data) ==
    /\ chart_data.kind = "dict"
    /\ \E i \in DOMAIN chart_data.pairs :
          chart_data.pairs[i][1] = StrValue("x")
    /\ \E i \in DOMAIN chart_data.pairs :
          chart_data.pairs[i][1] = StrValue("y")

\* Lines 413-457.  go.Scatter and go.Bar take lists for x and y and
\* raise a ValueError for a number.
create_custom_chart(chart_data, chart_type) ==
    IF chart_data.kind = "NoneType"
    THEN _create_empty_chart("Custom Chart",
                             "No data provided for custom chart")
    ELSE IF chart_type \in {"line", "bar"} /\ HasSeries(chart_data)
    THEN LET x == DictGet(chart_data, "x", PyNone).value
             y == DictGet(chart_data, "y", PyNone).value
         IN  IF x.kind # "list" \/ y.kind # "list"
             THEN _create_error_chart("Custom Chart",
                      "Error creating custom chart: "
                        \o "ValueError: Invalid value")
             ELSE Figure("Custom Environmental Data Visualization",
                         << Trace(IF chart_type = "line" THEN "scatter"
                                  ELSE "bar",
                                  "Data Series", x.elems, y.elems,
                                  color_schemes.environmental[1]) >>,
                         << >>, 0)
    ELSE Figure("Custom Environmental Data Visualization",
                << >>, << >>, 0)

\* ------------------------------------------------------------------------
\* State
\* ------------------------------------------------------------------------

VARIABLES
    corr_args,      \* the arguments of calculate_cross_country_correlations
    corr_result,    \* what the latest call returned
    corr_earlier,   \* what the call before it returned
    now,            \* the clock read by pd.Timestamp.now()
    matrix_in,      \* a correlation matrix with its columns and p-values
    strong_out,     \* what _identify_strong_correlations returned for it
    signif_out,     \* what _assess_statistical_significance returned
    engine,         \* the fields of the AIAnalysisEngine object
    ai_call,        \* the latest call of an engine method and its arguments
    ai_reply,       \* what the OpenAI API did with the request of that call
    ai_data,        \* the caller's data argument as the call left it
    ai_request,     \* the request the call sent, if it sent one
    ai_result,      \* what the call returned
    ai_earlier,     \* the call before it and the request it sent
    conn_call,      \* the connector method called and its arguments
    conn_pc,        \* where the call is: the request it issues or awaits
    conn_inflight,  \* the requests issued and not yet answered
    conn_log,       \* the endpoints requested so far, in order
    conn_done,      \* the requests dealt with and what became of each
    conn_result,    \* what the call returned
    session_state,  \* st.session_state of the dashboard session
    data_sources,   \* the data sources selected in the sidebar
    app_view,       \* what the latest run of the script displayed
    util_call,      \* the utility function called and its arguments
    util_result,    \* what the call returned
    util_heap,      \* the frames the call can reach, by reference
    export_call,    \* the export method called and its arguments
    export_result,  \* what the call returned
    viz_call,       \* the chart builder called and its arguments
    viz_result      \* what the call returned

corrVars == <<corr_args, corr_result, corr_earlier>>

matrixVars == <<matrix_in, strong_out, signif_out>>

aiVars ==
    <<engine, ai_call, ai_reply, ai_data, ai_request, ai_result, ai_earlier>>

connVars ==
    <<conn_call, conn_pc, conn_inflight, conn_log, conn_done, conn_result>>

appVars == <<session_state, data_sources, app_view>>

utilVars == <<util_call, util_result, util_heap>>

exportVars == <<export_call, export_result>>

vizVars == <<viz_call, viz_result>>

vars ==
    <<now, corrVars, matrixVars, aiVars, connVars, appVars, utilVars,
      exportVars, vizVars>>

\* What the actions of one component leave alone.
exceptCorrelation ==
    <<matrixVars, aiVars, connVars, appVars, utilVars,
      exportVars, vizVars>>

exceptMatrix ==
    <<now, corrVars, aiVars, connVars, appVars,
      utilVars, exportVars, vizVars>>

exceptAI ==
    <<corrVars, matrixVars, connVars, appVars, utilVars,
      exportVars, vizVars>>

exceptConnector ==
    <<now, corrVars, matrixVars, aiVars, appVars,
      utilVars, exportVars, vizVars>>

exceptApp ==
    <<now, corrVars, matrixVars, aiVars, connVars,
      utilVars, exportVars, vizVars>>

exceptUtils ==
    <<now, corrVars, matrixVars, aiVars, connVars,
      appVars, exportVars, vizVars>>

exceptExport ==
    <<now, corrVars, matrixVars, aiVars, connVars,
      appVars, utilVars, vizVars>>

exceptVisualization ==
    <<now, corrVars, matrixVars, aiVars, connVars,
      appVars, utilVars, exportVars>>

\* The clock stops the model after MaxClock calls.
MaxClock == 2

\* No call has returned yet.
NoResult == [pending |-> TRUE]

IsPending(r) == "pending" \in DOMAIN r

IsError(r) == "error" \in DOMAIN r

IsSuccess(r) == ~IsPending(r) /\ ~IsError(r)

\* ------------------------------------------------------------------------
\* The requests the correlation analyzer is called with
\* ------------------------------------------------------------------------

\* One entry of the data dict: a value that is no dict, or a dict with
\* its 'environmental' and 'economic' entries.
CountryDataChoices ==
    { [isdict |-> FALSE, environmental |-> "absent", economic |-> "absent"],
      [isdict |-> TRUE, environmental |-> "absent", economic |-> "absent"],
      [isdict |-> TRUE, environmental |-> "frame", economic |-> "empty"],
      [isdict |-> TRUE, environmental |-> "None", economic |-> "frame"],
      [isdict |-> TRUE, environmental |-> "frame", economic |-> "frame"] }

DataChoices ==
    { [isdict |-> FALSE, items |-> << >>] }
      \cup { [isdict |-> TRUE, items |-> it] :
               it \in [DOMAIN Countries -> CountryDataChoices] }

NotAList == [islist |-> FALSE, items |-> << >>]

ListOf(s) == [islist |-> TRUE, items |-> s]

PrimaryChoices == { NotAList, ListOf(<< >>), ListOf(<< "Temperature" >>) }

SecondaryChoices == { NotAList, ListOf(<< >>), ListOf(<< "GDP per Capita" >>) }

Methods ==
    { "Pearson", "pearson", "Spearman", "SPEARMAN", "Kendall", "kendall",
      "linear", None }

CorrArgs ==
    [data : DataChoices, primary_vars : PrimaryChoices,
     secondary_vars : SecondaryChoices, method : Methods]

\* The standard normal draws np.random.normal can return, in units of the
\* standard deviation.
ZDraws == {-1, 0, 2}

\* Country i gets a draw for the variables of lst from its entry key.
DrawsFor(a, i, key, lst) ==
    /\ a.data.isdict
    /\ a.data.items[i].isdict
    /\ HasFrame(a.data.items[i], key)
    /\ lst.islist /\ lst.items # << >>

\* The draws a call makes for country i: one per kind of variable that it
\* fills in (0 stands for a draw that is not made).
CellDraws(a, i) ==
    [env : (IF DrawsFor(a, i, "environmental", a.primary_vars)
            THEN ZDraws ELSE {0}),
     econ : (IF DrawsFor(a, i, "economic", a.secondary_vars)
             THEN ZDraws ELSE {0})]

RECURSIVE DrawSeqs(_, _)
DrawSeqs(a, n) ==
    IF n = 0 THEN { << >> }
    ELSE { Append(s, d) : s \in DrawSeqs(a, n - 1), d \in CellDraws(a, n) }

\* Draws of a continuous distribution: the values drawn for one variable
\* differ from country to country.
DrawSpace(a) ==
    { d \in DrawSeqs(a, Len(Countries)) :
        \A i \in DOMAIN d : \A j \in DOMAIN d :
           i < j =>
             /\ (DrawsFor(a, i, "environmental", a.primary_vars)
                   /\ DrawsFor(a, j, "environmental", a.primary_vars))
                  => d[i].env # d[j].env
             /\ (DrawsFor(a, i, "economic", a.secondary_vars)
                   /\ DrawsFor(a, j, "economic", a.secondary_vars))
                  => d[i].econ # d[j].econ }

\* ------------------------------------------------------------------------
\* Actions
\* ------------------------------------------------------------------------

AIInit ==
    /\ engine = AIAnalysisEngine
    /\ ai_call = Idle
    /\ ai_reply = Idle
    /\ ai_data = Idle
    /\ ai_request = NoRequest
    /\ ai_result = NoResult
    /\ ai_earlier = Idle

ConnectorIdle ==
    /\ conn_call = Idle
    /\ conn_pc = Idle
    /\ conn_inflight = {}
    /\ conn_log = << >>
    /\ conn_done = << >>
    /\ conn_result = NoResult

ExportIdle ==
    /\ export_call = Idle
    /\ export_result = NoResult

VizIdle ==
    /\ viz_call = Idle
    /\ viz_result = NoResult

UtilsIdle ==
    /\ util_call = Idle
    /\ util_result = NoResult
    /\ util_heap = << >>

AppIdle ==
    /\ session_state = Idle
    /\ data_sources = {}
    /\ app_view = Idle

CorrIdle ==
    /\ corr_args = Idle
    /\ corr_result = NoResult
    /\ corr_earlier = NoResult

MatrixIdle ==
    /\ matrix_in = Idle
    /\ strong_out = NoResult
    /\ signif_out = NoResult

CorrInit ==
    /\ corr_args \in CorrArgs
    /\ corr_result = NoResult
    /\ corr_earlier = NoResult

\* One call of calculate_cross_country_correlations with the arguments of
\* the state.
CalculateCrossCountryCorrelations ==
    /\ now < MaxClock
    /\ \E draw \in DrawSpace(corr_args) :
          corr_result' =
              calculate_cross_country_correlations(corr_args, draw, now + 1)
    /\ corr_earlier' = corr_result
    /\ now' = now + 1
    /\ UNCHANGED <<corr_args, exceptCorrelation>>

InitCorrelation ==
    /\ now = 0
    /\ CorrInit
    /\ MatrixIdle
    /\ AIInit
    /\ ConnectorIdle
    /\ AppIdle
    /\ UtilsIdle
    /\ ExportIdle
    /\ VizIdle

NextCorrelation == CalculateCrossCountryCorrelations

SpecCorrelation == InitCorrelation /\ [][NextCorrelation]_vars

\* ------------------------------------------------------------------------
\* The helpers applied to a correlation matrix and its p-values, as
\* calculate_cross_country_correlations passes them (lines 49-68): the
\* matrix of DataFrame.corr and the p-values over the same columns, both
\* symmetric.
\* ------------------------------------------------------------------------

ColumnChoices ==
    { << >>,
      << "Temperature" >>,
      << "Temperature", "GDP per Capita" >>,
      << "GDP per Capita", "Temperature" >>,
      << "Temperature", "Precipitation", "GDP per Capita" >> }

CoefChoices == { -100, -70, -69, 0, 70, 80, 100, NaN }

PChoices == { 0, 49, 50, NaN }

\* The symmetric tables over the columns with the given diagonal: one
\* value per unordered pair of columns.
SymmetricTables(columns, diagonal, values) ==
    LET n == Len(columns)
        pairs == {pr \in (1..n) \X (1..n) : pr[1] < pr[2]}
        at(f, i, j) == IF i = j THEN diagonal
                       ELSE IF i < j THEN f[<<i, j>>] ELSE f[<<j, i>>]
    IN  { [a \in Range(columns) |-> [b \in Range(columns) |->
             at(f, CHOOSE i \in 1..n : columns[i] = a,
                   CHOOSE j \in 1..n : columns[j] = b)]] :
          f \in [pairs -> values] }

MatrixInit ==
    /\ \E columns \in ColumnChoices :
         \E m \in SymmetricTables(columns, 100, CoefChoices) :
           \E pv \in SymmetricTables(columns, 0, PChoices) :
              matrix_in = [columns |-> columns,
                           correlation_matrix |-> m,
                           p_values |-> pv]
    /\ strong_out = NoResult
    /\ signif_out = NoResult

\* Lines 61-63: threshold is left at its default, 0.7.
IdentifyStrongCorrelations ==
    /\ strong_out' = _identify_strong_correlations(
                         matrix_in.columns, matrix_in.correlation_matrix,
                         matrix_in.p_values, 70)
    /\ UNCHANGED <<matrix_in, signif_out>>
    /\ UNCHANGED exceptMatrix

\* Lines 66-68: alpha = 0.05.
AssessStatisticalSignificance ==
    /\ signif_out' = _assess_statistical_significance(
                         matrix_in.columns, matrix_in.p_values, 50)
    /\ UNCHANGED <<matrix_in, strong_out>>
    /\ UNCHANGED exceptMatrix

InitMatrix ==
    /\ now = 0
    /\ MatrixInit
    /\ CorrIdle
    /\ AIInit
    /\ ConnectorIdle
    /\ AppIdle
    /\ UtilsIdle
    /\ ExportIdle
    /\ VizIdle

NextMatrix == IdentifyStrongCorrelations \/ AssessStatisticalSignificance

SpecMatrix == InitMatrix /\ [][NextMatrix]_vars

\* ------------------------------------------------------------------------
\* Calls of the AIAnalysisEngine methods
\* ------------------------------------------------------------------------

\* A dict of datasets, or a value that is no dict.
Dataset(name, dataset) == [name |-> name, isstr |-> TRUE, dataset |-> dataset]

DictOf(items) == [isdict |-> TRUE, items |-> items]

AIDataChoices ==
    { [isdict |-> FALSE, items |-> << >>],
      DictOf(<< >>),
      DictOf(<< Dataset("weather", "frame") >>),
      DictOf(<< Dataset("weather", "None"), Dataset("psi", "empty_frame") >>),
      DictOf(<< Dataset("economic", "text") >>),
      DictOf(<< [name |-> "7", isstr |-> FALSE, dataset |-> "frame"] >>) }

DateRangeChoices ==
    { [istuple |-> FALSE, items |-> << >>],
      [istuple |-> TRUE, items |-> << "2024-01-01" >>],
      [istuple |-> TRUE, items |-> << "2024-01-01", "2024-01-31" >>] }

AnalyzeArgs ==
    [hypothesis : {"Higher temperatures raise PSI", "Rainfall lowers PSI"},
     data : AIDataChoices,
     analysis_type : {"Correlation Analysis"},
     confidence_level : {"95%"}]

ParseArgs ==
    [query : {"temperature trends", "air quality last week"},
     countries : {<< "Singapore" >>},
     date_range : DateRangeChoices]

ResponseArgs ==
    [original_query : {"temperature trends", "air quality last week"},
     query_results : AIDataChoices,
     output_format : {"Summary Report"}]

InsightsArgs == [data : AIDataChoices]

JsonObject(pairs) == [kind |-> "object", pairs |-> pairs]

\* What the OpenAI API does with a request: it raises, or it answers with
\* a message whose content is None, no JSON, a JSON array or a JSON object.
LLMReplies ==
    { [raises |-> TRUE, content |-> [kind |-> "none", pairs |-> << >>]],
      [raises |-> FALSE, content |-> [kind |-> "none", pairs |-> << >>]],
      [raises |-> FALSE, content |-> [kind |-> "invalid", pairs |-> << >>]],
      [raises |-> FALSE, content |-> [kind |-> "array", pairs |-> << >>]],
      [raises |-> FALSE, content |-> JsonObject(<< >>)],
      [raises |-> FALSE, content |->
          JsonObject(<< <<"insights", "a">>, <<"key_findings", "b">> >>)],
      [raises |-> FALSE, content |->
          JsonObject(<< <<"insights", "a">>, <<"insights", "b">> >>)],
      [raises |-> FALSE, content |->
          JsonObject(<< <<"error", "a">>, <<"analysis_metadata", "b">> >>)] }

\* One call: the engine and the caller's data as the method leaves them,
\* the request it sent and what it returned; the call before it is kept.
AICall(method, a, reply, out) ==
    /\ ai_earlier' = [call |-> ai_call, request |-> ai_request]
    /\ ai_call' = [method |-> method, args |-> a]
    /\ ai_reply' = reply
    /\ engine' = out.self
    /\ ai_data' = out.data
    /\ ai_request' = out.request
    /\ ai_result' = out.result
    /\ now' = now + 1
    /\ UNCHANGED exceptAI

AnalyzeHypothesis ==
    /\ now < MaxClock
    /\ \E a \in AnalyzeArgs, reply \in LLMReplies :
          AICall("analyze_hypothesis", a, reply,
                 analyze_hypothesis(engine, a, reply, now + 1))

ParseNaturalLanguageQuery ==
    /\ now < MaxClock
    /\ \E a \in ParseArgs, reply \in LLMReplies :
          AICall("parse_natural_language_query", a, reply,
                 parse_natural_language_query(engine, a, reply))

GenerateQueryResponse ==
    /\ now < MaxClock
    /\ \E a \in ResponseArgs, reply \in LLMReplies :
          AICall("generate_query_response", a, reply,
                 generate_query_response(engine, a, reply))

GenerateEnvironmentalInsights ==
    /\ now < MaxClock
    /\ \E a \in InsightsArgs, reply \in LLMReplies :
          AICall("generate_environmental_insights", a, reply,
                 generate_environmental_insights(engine, a, reply))

InitAI ==
    /\ now = 0
    /\ AIInit
    /\ CorrIdle
    /\ MatrixIdle
    /\ ConnectorIdle
    /\ AppIdle
    /\ UtilsIdle
    /\ ExportIdle
    /\ VizIdle

NextAI ==
    \/ AnalyzeHypothesis
    \/ ParseNaturalLanguageQuery
    \/ GenerateQueryResponse
    \/ GenerateEnvironmentalInsights

SpecAI == InitAI /\ [][NextAI]_vars

\* ------------------------------------------------------------------------
\* One call of a connector method
\* ------------------------------------------------------------------------

CountryLists ==
    { NotAList, ListOf(<< >>), ListOf(<< "Atlantis" >>),
      ListOf(<< "Singapore" >>), ListOf(<< "Malaysia", "Atlantis" >>) }

ConnectorCalls ==
    { [method |-> "get_weather_data"], [method |-> "get_psi_data"] }
    \cup { [method |-> "get_environmental_indicators", countries |-> c] :
             c \in CountryLists }
    \cup { [method |-> "get_climate_data", country |-> c, date_range |-> d] :
             c \in {"Singapore", "Atlantis"}, d \in DateRangeChoices }

ConnectorInit ==
    /\ conn_call \in ConnectorCalls
    /\ conn_pc = Idle
    /\ conn_inflight = {}
    /\ conn_log = << >>
    /\ conn_done = << >>
    /\ conn_result = NoResult

\* The code before the first request.
Enter ==
    /\ conn_pc = Idle
    /\ IF Plan(conn_call) = << >>
       THEN conn_pc' = AtReturn /\ conn_result' = NoneValue
       ELSE conn_pc' = At("get", 1) /\ UNCHANGED conn_result
    /\ UNCHANGED <<conn_call, conn_inflight, conn_log, conn_done>>
    /\ UNCHANGED exceptConnector

\* self.session.get(url, ...) issues the request.
Get ==
    /\ conn_pc # Idle
    /\ conn_pc.at = "get"
    /\ LET plan == Plan(conn_call)
           url == plan[conn_pc.i]
       IN  /\ conn_log' = Append(conn_log, url)
           /\ conn_inflight' = conn_inflight \cup {url}
           /\ conn_pc' = AfterGet(conn_pc.i, Len(plan))
    /\ UNCHANGED <<conn_call, conn_done, conn_result>>
    /\ UNCHANGED exceptConnector

\* session.get returns or raises, and the method deals with the outcome
\* up to its next request or its return.
Respond ==
    /\ conn_pc # Idle
    /\ \E url \in conn_inflight, kind \in ResponseKinds :
         \E disposition \in Handle(conn_call.method, kind) :
            LET plan == Plan(conn_call)
                done == Append(conn_done, [endpoint |-> url,
                                           disposition |-> disposition])
                next == AfterResponse(IndexOf(plan, url), disposition)
            IN  /\ conn_inflight' = conn_inflight \ {url}
                /\ conn_done' = done
                /\ IF conn_pc.at # "wait"
                   THEN UNCHANGED <<conn_pc, conn_result>>
                   ELSE IF disposition = "abort"
                   THEN conn_pc' = AtReturn /\ conn_result' = NoneValue
                   ELSE IF next > Len(plan)
                   THEN /\ conn_pc' = AtReturn
                        /\ conn_result' = FrameOrNone(RecordsOf(done))
                   ELSE conn_pc' = At("get", next) /\ UNCHANGED conn_result
    /\ UNCHANGED <<conn_call, conn_log>>
    /\ UNCHANGED exceptConnector

InitConnector ==
    /\ now = 0
    /\ ConnectorInit
    /\ CorrIdle
    /\ MatrixIdle
    /\ AIInit
    /\ AppIdle
    /\ UtilsIdle
    /\ ExportIdle
    /\ VizIdle

NextConnector == Enter \/ Get \/ Respond

SpecConnector == InitConnector /\ [][NextConnector]_vars

\* ------------------------------------------------------------------------
\* Runs of the dashboard script
\* ------------------------------------------------------------------------

\* Lines 91-95: the default selection and other selections of the sidebar.
DefaultDataSources == {"Singapore Weather", "Singapore PSI"}

DataSourceChoices ==
    { DefaultDataSources, {}, {"Singapore Weather"},
      {"Singapore PSI", "ASEAN Statistics"} }

\* What a connector hands to the page: None, an empty frame, a frame, or
\* a frame the chart code throws on.
FetchedFrames == {"None", "empty", "frame", "unplottable"}

Hypotheses ==
    {"", "   ", "Air quality follows temperature", "ASEAN emissions grow"}

\* What analyze_hypothesis returned: a dict with or without 'error', that
\* the display code of lines 236-266 can or cannot show.
AnalysisResults ==
    { [error |-> FALSE, displayable |-> TRUE],
      [error |-> TRUE, displayable |-> TRUE],
      [error |-> FALSE, displayable |-> FALSE] }

\* A new session: no script run yet, the sidebar at its defaults.
AppInit ==
    /\ session_state = EmptyDict
    /\ data_sources = DefaultDataSources
    /\ app_view = Idle

\* One run of the script: lines 27-30, then the selected page.
ScriptRun(ds, out) ==
    /\ session_state' = out.session_state
    /\ data_sources' = ds
    /\ app_view' = out.view
    /\ UNCHANGED exceptApp

\* The first run of a session shows the first page with the default
\* sources; later runs follow a selection in the sidebar.
RunDataExplorer ==
    \E ds \in DataSourceChoices, weather_data, psi_data \in FetchedFrames :
       /\ app_view = Idle => ds = DefaultDataSources
       /\ ScriptRun(ds, DataExplorer(InitializeSessionState(session_state),
                                      ds, weather_data, psi_data))

RunHypothesisTesting ==
    /\ app_view # Idle
    /\ \E ds \in DataSourceChoices, clicked \in BOOLEAN,
          hypothesis \in Hypotheses, analysis_result \in AnalysisResults :
          ScriptRun(ds, HypothesisTesting(
                            InitializeSessionState(session_state),
                            clicked, hypothesis, analysis_result))

RunCorrelationPage ==
    /\ app_view # Idle
    /\ \E ds \in DataSourceChoices, clicked \in BOOLEAN,
          displayed \in {"results", "error"} :
          ScriptRun(ds, CorrelationPage(
                            InitializeSessionState(session_state),
                            clicked, displayed))

RunRegionalDashboard ==
    /\ app_view # Idle
    /\ \E ds \in DataSourceChoices, climate \in {"chart", "info", "error"} :
          ScriptRun(ds, RegionalDashboard(
                            InitializeSessionState(session_state), climate))

RunCustomQueries ==
    /\ app_view # Idle
    /\ \E ds \in DataSourceChoices, clicked \in BOOLEAN,
          query \in {"", "temperature trends"},
          displayed \in {"results", "error"} :
          ScriptRun(ds, CustomQueries(
                            InitializeSessionState(session_state),
                            clicked, query, displayed))

InitApp ==
    /\ now = 0
    /\ AppInit
    /\ CorrIdle
    /\ MatrixIdle
    /\ AIInit
    /\ ConnectorIdle
    /\ UtilsIdle
    /\ ExportIdle
    /\ VizIdle

NextApp ==
    \/ RunDataExplorer
    \/ RunHypothesisTesting
    \/ RunCorrelationPage
    \/ RunRegionalDashboard
    \/ RunCustomQueries

SpecApp == InitApp /\ [][NextApp]_vars


\* ------------------------------------------------------------------------
\* Calls of the utility functions
\* ------------------------------------------------------------------------

\* The day of the call.
Today == 100

DayChoices == {Today - 400, Today - 31, Today - 1, Today, Today + 1, Today + 45}

DateChoices ==
    {DateTime(d, FALSE) : d \in DayChoices}
    \cup {DateString(d, FALSE, TRUE) : d \in DayChoices}
    \cup { DateTime(Today - 1, TRUE), DateString(Today + 1, TRUE, TRUE),
           DateString(0, FALSE, FALSE), NoDate }

DateRangeCalls ==
    { [function |-> "validate_date_range", start_date |-> s, end_date |-> e] :
        s \in DateChoices, e \in DateChoices }

CountryNameChoices ==
    { << "S", "G" >>,
      << " ", "s", "g", " " >>,
      << "S", "i", "n", "g", "a", "p", "o", "r", "e" >>,
      << "B", "U", "R", "M", "A" >>,
      << "M", "y", "a", "n", "m", "a", "r", " " >>,
      << "m", "y", "a", "n", "m", "a", "r" >>,
      << "A", "t", "l", "a", "n", "t", "i", "s" >>,
      << "l", "a", "o" >>,
      << "E", "a", "s", "t", " ", "t", "i", "m", "o", "r" >>,
      << >> }

CountryNameLists ==
    {<< >>} \cup {<< a >> : a \in CountryNameChoices}
    \cup {<< a, b >> : a, b \in CountryNameChoices}

StandardizeCalls ==
    { [function |-> "standardize_country_names", countries |-> c] :
        c \in CountryNameLists }

\* Columns of two rows.
NumberColumns ==
    { Column(<< "v", "a", "l", "u", "e" >>,
             "number", v, FALSE) :
        v \in { <<5, 5>>, <<1, 9>>, <<10, 11>>, <<NaN, 4>>, <<-3, 3>>,
                <<NaN, NaN>> } }

TimeColumns ==
    { Column(<< "t", "i", "m", "e", "s", "t", "a", "m", "p" >>,
             "datetime", d, TRUE) :
        d \in { <<1, 2>>, <<1, 30>>, <<NaN, 5>> } }
    \cup { Column(<< "t", "i", "m", "e", "s", "t", "a", "m", "p" >>,
                  "object", <<1, 2>>, FALSE),
           Column(<< "d", "a", "t", "e" >>,
                  "datetime", <<1, 9>>, TRUE) }

QualityFrames ==
    { NotAFrame, Frame(<< >>),
      Frame(<< Column(<< "v", "a", "l", "u", "e" >>,
                      "number", << >>, FALSE) >>),
      Frame(<< Column(<< "v", "a", "l", "u", "e" >>,
                      "number", << 7 >>, FALSE),
               Column(<< "t", "i", "m", "e" >>,
                      "datetime", << 3 >>, TRUE) >>),
      Frame(<< Column(<< "v", "a", "l", "u", "e" >>,
                      "number", << 10, 11, 12 >>, FALSE),
               Column(<< "s", "t", "a", "t", "i", "o", "n" >>,
                      "object", << 1, NaN, 1 >>, FALSE),
               Column(<< "d", "a", "t", "e", "t", "i", "m", "e" >>,
                      "datetime", << 1, 2, 3 >>, TRUE) >>),
      Frame(<< Column(<< "t", "i", "m", "e", "s", "t", "a", "m", "p" >>,
                      "object", << 1, 2 >>, FALSE),
               Column(<< "d", "a", "t", "e" >>,
                      "datetime", << 1, 9 >>, TRUE) >>),
      Frame(<< Column(<< "s", "t", "a", "t", "i", "o", "n" >>,
                      "object", << 1, 2 >>, FALSE) >>) }
    \cup { Frame(<< n >>) : n \in NumberColumns }
    \cup { Frame(<< n, t >>) : n \in NumberColumns, t \in TimeColumns }
    \cup { Frame(<< n, m >>) : n, m \in NumberColumns }

QualityCalls ==
    { [function |-> "calculate_data_quality_score", data |-> d] :
        d \in QualityFrames }

ResponseFields == {"status", "data", "extra"}

ResponseValues ==
    {PyValue("int"), PyValue("bool"), PyValue("str"), PyValue("NoneType")}

ResponseChoices ==
    {PyValue("list"), PyValue("NoneType")}
    \cup { ResponseDict(items) :
             items \in UNION {[fields -> ResponseValues] :
                                 fields \in SUBSET ResponseFields} }

ExpectedTypes ==
    {PyClass("int"), PyClass("str"), PyClass("object"), NotAClass("int")}

StructureChoices ==
    {NotAStructure, Structure(<< >>)}
    \cup { Structure(<< <<f, t>> >>) :
             f \in {"status", "data"}, t \in ExpectedTypes }
    \cup { Structure(<< <<"status", t>>, <<"data", u>> >>) :
             t \in ExpectedTypes, u \in ExpectedTypes }

ValidateResponseCalls ==
    { [function |-> "validate_api_response", response_data |-> r,
       expected_structure |-> e] :
        r \in ResponseChoices, e \in StructureChoices }

\* The reference of the frame the caller passes.
DataRef == 1

CleanFrames ==
    QualityFrames
    \cup { Frame(<< Column(<< "A", "i", "r", " ", "T", "e", "m", "p" >>,
                           "number", << 20, NaN, 25 >>, FALSE),
                    Column(<< "D", "a", "t", "e" >>,
                           "object", << 1, NaN, 3 >>, TRUE) >>),
           Frame(<< Column(<< "P", "S", "I", "-", "2", "4", "h" >>,
                           "number",
                           << 0, 0, 0, 0, 0, 0, 0, 0, 0, 0, 11 >>,
                           FALSE) >>),
           Frame(<< Column(<< "P", "S", "I", "-", "2", "4", "h" >>,
                           "number",
                           << 0, 0, 0, 0, 0, -22, 0, 0, 0, 0, 0 >>,
                           FALSE) >>),
           Frame(<< Column(<< "P", "S", "I", "-", "2", "4", "h" >>,
                           "number", << 3, 8 >>, FALSE),
                    Column(<< "p", "s", "i", " ", "2", "4", "h" >>,
                           "number", << 4, 9 >>, FALSE) >>) }

CleanCalls ==
    { [function |-> "clean_environmental_data", data |-> DataRef,
       frame |-> f] : f \in CleanFrames }

UtilCalls ==
    DateRangeCalls \cup StandardizeCalls \cup QualityCalls
    \cup ValidateResponseCalls \cup CleanCalls

\* What a call returned.
ReturnValue(v) == [returned |-> v]

UtilsInit ==
    /\ util_call \in UtilCalls
    /\ util_result = NoResult
    /\ util_heap = IF util_call.function = "clean_environmental_data"
                   THEN << util_call.frame >>
                   ELSE << >>

ValidateDateRange ==
    /\ IsPending(util_result)
    /\ util_call.function = "validate_date_range"
    /\ util_result' = ReturnValue(validate_date_range(
                           util_call.start_date, util_call.end_date, now))
    /\ UNCHANGED <<util_call, util_heap>>
    /\ UNCHANGED exceptUtils

StandardizeCountryNames ==
    /\ IsPending(util_result)
    /\ util_call.function = "standardize_country_names"
    /\ \E list \in standardize_country_names(util_call.countries) :
          util_result' = ReturnValue(list)
    /\ UNCHANGED <<util_call, util_heap>>
    /\ UNCHANGED exceptUtils

CalculateDataQualityScore ==
    /\ IsPending(util_result)
    /\ util_call.function = "calculate_data_quality_score"
    /\ util_result' =
           ReturnValue(calculate_data_quality_score(util_call.data))
    /\ UNCHANGED <<util_call, util_heap>>
    /\ UNCHANGED exceptUtils

ValidateApiResponse ==
    /\ IsPending(util_result)
    /\ util_call.function = "validate_api_response"
    /\ util_result' =
           ReturnValue(validate_api_response(util_call.response_data,
                                             util_call.expected_structure))
    /\ UNCHANGED <<util_call, util_heap>>
    /\ UNCHANGED exceptUtils

CleanEnvironmentalData ==
    /\ IsPending(util_result)
    /\ util_call.function = "clean_environmental_data"
    /\ LET done == clean_environmental_data(util_heap, util_call.data)
       IN  /\ util_heap' = done.heap
           /\ util_result' = ReturnValue(done.returned)
    /\ UNCHANGED util_call
    /\ UNCHANGED exceptUtils

InitUtils ==
    /\ now = Today
    /\ UtilsInit
    /\ CorrIdle
    /\ MatrixIdle
    /\ AIInit
    /\ ConnectorIdle
    /\ AppIdle
    /\ ExportIdle
    /\ VizIdle

NextUtils ==
    \/ ValidateDateRange
    \/ StandardizeCountryNames
    \/ CalculateDataQualityScore
    \/ ValidateApiResponse
    \/ CleanEnvironmentalData

SpecUtils == InitUtils /\ [][NextUtils]_vars

\* ------------------------------------------------------------------------
\* Exports: one call of a JSON export of ExportManager.
\* ------------------------------------------------------------------------

EmptyResult == DictValue(<< >>)

AnalysisResult ==
    DictValue(<<
        Item("confidence_score", FloatValue("0.87")),
        Item("data_points", IntValue(120)),
        Item("analysis_metadata", DictValue(<<
            Item("data_sources", ListValue(<< StrValue("weather") >>)),
            Item("analysis_type", StrValue("hypothesis_testing")) >>)),
        Item("insights", StrValue("PSI rises in the dry season")),
        Item("recommendations", ListValue(<<
            StrValue("Expand mangrove restoration"),
            base_recommendations[1] >>)) >>)

CorrelationResult ==
    DictValue(<<
        Item("correlation_matrix", DictValue(<<
            Item("Temperature", DictValue(<<
                Item("Temperature", FloatValue("1.0")),
                Item("GDP", FloatValue("0.91")) >>)) >>)),
        Item("strong_positive", ListValue(<<
            DictValue(<< Item("var1", StrValue("Temperature")),
                         Item("var2", StrValue("GDP")),
                         Item("correlation", FloatValue("0.91")) >>) >>)),
        Item("strong_negative", ListValue(<< >>)),
        Item("method_used", StrValue("pearson")),
        Item("variables_analyzed",
             ListValue(<< StrValue("Temperature"), StrValue("GDP") >>)),
        Item("data_points", IntValue(30)) >>)

\* A correlation of a constant column is nan.
NanResult ==
    DictValue(<<
        Item("correlation_matrix", DictValue(<<
            Item("Temperature", DictValue(<<
                Item("GDP", FloatValue("nan")) >>)) >>)),
        Item("method_used", StrValue("pearson")) >>)

InfResult == DictValue(<< Item("confidence_score", FloatValue("inf")) >>)

NumpyResult ==
    DictValue(<<
        Item("data_points", NumpyInteger(7)),
        Item("confidence_score", NumpyFloat32("0.5")),
        Item("values", NumpyArray(<< FloatValue("1.5"), IntValue(2) >>)),
        Item("timestamp", TimestampValue(3)),
        Item("missing", NAValue),
        Item("done", BoolValue(TRUE)),
        Item("note", PyNone) >>)

NumpyNanResult ==
    DictValue(<< Item("data_quality_score", NumpyFloat32("nan")) >>)

BadMetadataResult ==
    DictValue(<< Item("analysis_metadata", PyNone),
                 Item("strong_positive", IntValue(3)) >>)

SetResult == DictValue(<< Item("ids", SetValue) >>)

FrameResult == DictValue(<< Item("data", FrameValue) >>)

TupleKeyResult ==
    DictValue(<< << TupleValue(<< IntValue(1), IntValue(2) >>),
                    StrValue("pair") >> >>)

IntKeyResult == DictValue(<< << IntValue(1), StrValue("one") >> >>)

UnhashableResult ==
    DictValue(<< Item("recommendations",
                      ListValue(<< ListValue(<< StrValue("nested") >>) >>)) >>)

ExportObjects ==
    { EmptyResult, AnalysisResult, CorrelationResult, NanResult, InfResult,
      NumpyResult, NumpyNanResult, BadMetadataResult, SetResult, FrameResult,
      TupleKeyResult, IntKeyResult, ListValue(<< >>), PyNone }

ReportResultLists ==
    { ListValue(<< >>), ListValue(<< AnalysisResult >>),
      ListValue(<< NanResult >>), ListValue(<< UnhashableResult >>),
      ListValue(<< ListValue(<< >>) >>), PyNone, IntValue(2) }

ReportSummaries == {EmptyResult, NumpyNanResult, NumpyResult, PyNone}

ExportCalls ==
    { [method |-> "export_analysis_results",
       hypothesis |-> StrValue("Haze lowers tourism"),
       analysis_result |-> r] : r \in ExportObjects }
    \cup { [method |-> "export_query_results",
            query |-> StrValue("PSI last week"),
            query_response |-> r,
            output_format |-> f] :
             r \in ExportObjects, f \in {StrValue("Summary"), PyNone} }
    \cup { [method |-> "export_correlation_analysis",
            correlation_results |-> r] : r \in ExportObjects }
    \cup { [method |-> "export_environmental_report",
            data_summary |-> d,
            analysis_results |-> l,
            time_period |-> StrValue("Last 30 days")] :
             d \in ReportSummaries, l \in ReportResultLists }

ExportInit ==
    /\ export_call \in ExportCalls
    /\ export_result = NoResult

ExportAnalysisResults ==
    /\ IsPending(export_result)
    /\ export_call.method = "export_analysis_results"
    /\ export_result' =
           ReturnValue(export_analysis_results(
               export_call.hypothesis, export_call.analysis_result, now))
    /\ UNCHANGED <<now, export_call>>
    /\ UNCHANGED exceptExport

ExportQueryResults ==
    /\ IsPending(export_result)
    /\ export_call.method = "export_query_results"
    /\ export_result' =
           ReturnValue(export_query_results(
               export_call.query, export_call.query_response,
               export_call.output_format, now))
    /\ UNCHANGED <<now, export_call>>
    /\ UNCHANGED exceptExport

ExportCorrelationAnalysis ==
    /\ IsPending(export_result)
    /\ export_call.method = "export_correlation_analysis"
    /\ export_result' =
           ReturnValue(export_correlation_analysis(
               export_call.correlation_results, now))
    /\ UNCHANGED <<now, export_call>>
    /\ UNCHANGED exceptExport

ExportEnvironmentalReport ==
    /\ IsPending(export_result)
    /\ export_call.method = "export_environmental_report"
    /\ \E document \in export_environmental_report(
                           export_call.data_summary,
                           export_call.analysis_results,
                           export_call.time_period, now) :
          export_result' = ReturnValue(document)
    /\ UNCHANGED <<now, export_call>>
    /\ UNCHANGED exceptExport

InitExport ==
    /\ now = Today
    /\ ExportInit
    /\ CorrIdle
    /\ MatrixIdle
    /\ AIInit
    /\ ConnectorIdle
    /\ AppIdle
    /\ UtilsIdle
    /\ VizIdle

NextExport ==
    \/ ExportAnalysisResults
    \/ ExportQueryResults
    \/ ExportCorrelationAnalysis
    \/ ExportEnvironmentalReport

SpecExport == InitExport /\ [][NextExport]_vars

\* ------------------------------------------------------------------------
\* Charts: one call of a chart builder of VisualizationEngine.
\* ------------------------------------------------------------------------

RegionColumns ==
    { Column(<< "r", "e", "g", "i", "o", "n" >>, "object", << 1, 3, 1 >>, FALSE),
      Column(<< "r", "e", "g", "i", "o", "n" >>, "object", << 1, NaN, 3 >>, FALSE),
      Column(<< "r", "e", "g", "i", "o", "n" >>, "number", << 7, 8, 7 >>, FALSE),
      Column(<< "c", "o", "u", "n", "t", "r", "y" >>, "object", << 2, 1, 2 >>, FALSE) }

PsiColumns ==
    { Column(<< "p", "s", "i", "_", "2", "4", "h" >>, "number", << 40, 120, 250 >>, FALSE),
      Column(<< "p", "s", "i", "_", "2", "4", "h" >>, "number", << NaN, 60, NaN >>, FALSE),
      Column(<< "p", "s", "i", "_", "2", "4", "h" >>, "object", << 1, 2, NaN >>, FALSE),
      Column(<< "v", "a", "l", "u", "e" >>, "number", << 5, 6, 7 >>, FALSE) }

VizFrames ==
    { NotAFrame, Frame(<< >>),
      Frame(<< Column(<< "r", "e", "g", "i", "o", "n" >>, "object", << >>, FALSE),
               Column(<< "p", "s", "i", "_", "2", "4", "h" >>, "number", << >>, FALSE) >>) }
    \cup { Frame(<< r >>) : r \in RegionColumns }
    \cup { Frame(<< p >>) : p \in PsiColumns }
    \cup { Frame(<< r, p >>) : r \in RegionColumns, p \in PsiColumns }
    \cup { Frame(<< r, p,
                    Column(<< "t", "i", "m", "e", "s", "t", "a", "m", "p" >>, "datetime", << 1, 1, 2 >>, TRUE) >>) :
             r \in RegionColumns, p \in PsiColumns }

ColumnArguments == { << "t", "i", "m", "e", "s", "t", "a", "m", "p" >>, << "p", "s", "i", "_", "2", "4", "h" >>, << "a", "i", "r", "_", "t", "e", "m", "p" >> }

\* The arrays np.random draws, cut to two values.
Samples == { << 27, 31 >>, << 90, 64 >> }

RandomStreams == [1..6 -> Samples]

MatrixArguments ==
    { PyNone, EmptyResult, FrameValue,
      DictValue(<< Item("Temperature", IntValue(100)) >>),
      DictValue(<<
          Item("Temperature", DictValue(<<
              Item("Temperature", IntValue(100)),
              Item("GDP", IntValue(-73)) >>)),
          Item("GDP", DictValue(<<
              Item("Temperature", IntValue(-73)),
              Item("GDP", IntValue(100)) >>)) >>),
      DictValue(<<
          Item("Temperature", DictValue(<<
              Item("GDP", FloatValue("nan")) >>)),
          Item("GDP", DictValue(<<
              Item("Rainfall", IntValue(12)) >>)) >>),
      DictValue(<<
          Item("Temperature", DictValue(<<
              Item("GDP", StrValue("high")) >>)) >>) }

ClimateArguments ==
    { PyNone, EmptyResult, ListValue(<< IntValue(1) >>) }
    \cup { DictValue(<< Item("Singapore", f) >>) :
             f \in { NotAFrame, Frame(<< >>),
                     Frame(<< Column(<< "v", "a", "l", "u", "e" >>, "number", << 5 >>, FALSE) >>) } }
    \cup { DictValue(<< Item("Singapore", f), Item("Malaysia", g) >>) :
             f, g \in { NotAFrame,
                        Frame(<< Column(<< "v", "a", "l", "u", "e" >>, "number",
                                        << 5 >>, FALSE) >>) } }

ChartData ==
    { PyNone, EmptyResult, ListValue(<< IntValue(1) >>),
      DictValue(<< Item("x", ListValue(<< IntValue(1), IntValue(2) >>)),
                   Item("y", ListValue(<< IntValue(5), IntValue(3) >>)) >>),
      DictValue(<< Item("x", ListValue(<< IntValue(1) >>)) >>),
      DictValue(<< Item("x", ListValue(<< IntValue(1) >>)),
                   Item("y", IntValue(5)) >>) }

VizCalls ==
    { [builder |-> "create_time_series", data |-> d, time_col |-> t,
       value_col |-> v, title |-> "PSI over time"] :
        d \in VizFrames, t \in ColumnArguments, v \in ColumnArguments }
    \cup { [builder |-> b, data |-> d] :
             b \in { "create_psi_chart", "create_energy_emissions_chart",
                     "create_epi_comparison", "create_psi_regional_view" },
             d \in VizFrames }
    \cup { [builder |-> "create_correlation_heatmap",
            correlation_matrix |-> m] : m \in MatrixArguments }
    \cup { [builder |-> "create_multi_country_climate_chart",
            climate_data |-> c] : c \in ClimateArguments }
    \cup { [builder |-> "create_custom_chart", chart_data |-> c,
            chart_type |-> t] :
             c \in ChartData, t \in {"line", "bar", "pie"} }

VizInit ==
    /\ viz_call \in VizCalls
    /\ viz_result = NoResult

CreateTimeSeries ==
    /\ IsPending(viz_result)
    /\ viz_call.builder = "create_time_series"
    /\ viz_result' =
           ReturnValue(create_time_series(viz_call.data, viz_call.time_col,
                                          viz_call.value_col,
                                          viz_call.title))
    /\ UNCHANGED viz_call
    /\ UNCHANGED exceptVisualization

CreatePsiChart ==
    /\ IsPending(viz_result)
    /\ viz_call.builder = "create_psi_chart"
    /\ viz_result' = ReturnValue(create_psi_chart(viz_call.data))
    /\ UNCHANGED viz_call
    /\ UNCHANGED exceptVisualization

CreateCorrelationHeatmap ==
    /\ IsPending(viz_result)
    /\ viz_call.builder = "create_correlation_heatmap"
    /\ viz_result' =
           ReturnValue(create_correlation_heatmap(
               viz_call.correlation_matrix))
    /\ UNCHANGED viz_call
    /\ UNCHANGED exceptVisualization

CreateMultiCountryClimateChart ==
    /\ IsPending(viz_result)
    /\ viz_call.builder = "create_multi_country_climate_chart"
    /\ \E rng \in RandomStreams :
          viz_result' =
              ReturnValue(create_multi_country_climate_chart(
                  viz_call.climate_data, rng))
    /\ UNCHANGED viz_call
    /\ UNCHANGED exceptVisualization

CreateEnergyEmissionsChart ==
    /\ IsPending(viz_result)
    /\ viz_call.builder = "create_energy_emissions_chart"
    /\ \E rng \in RandomStreams :
          viz_result' =
              ReturnValue(create_energy_emissions_chart(viz_call.data, rng))
    /\ UNCHANGED viz_call
    /\ UNCHANGED exceptVisualization

CreateEpiComparison ==
    /\ IsPending(viz_result)
    /\ viz_call.builder = "create_epi_comparison"
    /\ \E rng \in RandomStreams :
          viz_result' = ReturnValue(create_epi_comparison(viz_call.data, rng))
    /\ UNCHANGED viz_call
    /\ UNCHANGED exceptVisualization

CreatePsiRegionalView ==
    /\ IsPending(viz_result)
    /\ viz_call.builder = "create_psi_regional_view"
    /\ viz_result' = ReturnValue(create_psi_regional_view(viz_call.data))
    /\ UNCHANGED viz_call
    /\ UNCHANGED exceptVisualization

CreateCustomChart ==
    /\ IsPending(viz_result)
    /\ viz_call.builder = "create_custom_chart"
    /\ viz_result' =
           ReturnValue(create_custom_chart(viz_call.chart_data,
                                           viz_call.chart_type))
    /\ UNCHANGED viz_call
    /\ UNCHANGED exceptVisualization

InitVisualization ==
    /\ now = 0
    /\ VizInit
    /\ CorrIdle
    /\ MatrixIdle
    /\ AIInit
    /\ ConnectorIdle
    /\ AppIdle
    /\ UtilsIdle
    /\ ExportIdle

NextVisualization ==
    \/ CreateTimeSeries
    \/ CreatePsiChart
    \/ CreateCorrelationHeatmap
    \/ CreateMultiCountryClimateChart
    \/ CreateEnergyEmissionsChart
    \/ CreateEpiComparison
    \/ CreatePsiRegionalView
    \/ CreateCustomChart

SpecVisualization == InitVisualization /\ [][NextVisualization]_vars

\* ------------------------------------------------------------------------
\* correlation_analysis.py: analyze_time_series_correlations
\* ------------------------------------------------------------------------

\* Series.shift(lag): the value of row i moves to row i + lag, and the rows
\* left without a value are missing.
shift(values, lag) ==
    [i \in DOMAIN values |->
        IF i - lag \in DOMAIN values THEN values[i - lag] ELSE NaN]

\* f'lag_{lag}'
LagKey(lag) == "lag_" \o ToString(lag)

\* Lines 131-135: the entry stored when the correlation throws.
LagFallback ==
    [correlation |-> NaN, p_value |-> NaN, significant |-> FALSE]

\* Lines 120-123: pearsonr of the target's values and the lagged values,
\* each with its own missing values dropped.  A target that holds text
\* makes pearsonr raise.
LaggedPearson(data, target_variable, column, lag) ==
    LET lagged_series == shift(column.values, lag)
        target == ColumnOf(data, target_variable)
    IN  IF target.dtype # "number" THEN Raised
        ELSE pearsonr(NonNull(target.values), NonNull(lagged_series))

\* Lines 117-135: the entry of one column at one lag.
LagEntry(data, target_variable, column, lag) ==
    LET r == LaggedPearson(data, target_variable, column, lag)
    IN  IF r.ok
        THEN [correlation |-> r.stat, p_value |-> r.p,
              significant |-> FloatLT(r.p, 50)]
        ELSE LagFallback

\* Lines 113-135: lag_results of one lag, keyed by column name: the numeric
\* columns other than the target.
LagResults(data, target_variable, lag) ==
    LET cols == {i \in NumericColumns(data) :
                   str_join(data.columns[i].name) # target_variable}
        names == {str_join(data.columns[i].name) : i \in cols}
    IN  [name \in names |->
            LagEntry(data, target_variable, ColumnOf(data, name), lag)]

\* Lines 105-144, the body of the try block; lag_periods that is no list
\* cannot be iterated.
TimeSeriesBody(data, target_variable, lag_periods, clock) ==
    IF ~data.isframe THEN Raise("AttributeError: columns")
    ELSE IF ~HasColumn(data, target_variable)
    THEN [error |-> "Target variable " \o target_variable
                      \o " not found in data"]
    ELSE IF ~lag_periods.islist THEN Raise("TypeError: not iterable")
    ELSE
      LET lags == Range(lag_periods.items)
          lag_correlations ==
            [key \in {LagKey(lag) : lag \in lags} |->
                LagResults(data, target_variable,
                           CHOOSE lag \in lags : LagKey(lag) = key)]
      IN  [lag_correlations |-> lag_correlations,
           target_variable |-> target_variable,
           lag_periods |-> lag_periods,
           analysis_timestamp |-> clock]

\* analyze_time_series_correlations: the try block and the except clause
\* of lines 146-147.
analyze_time_series_correlations(data, target_variable, lag_periods, clock) ==
    LET r == TimeSeriesBody(data, target_variable, lag_periods, clock)
    IN  IF IsRaise(r)
        THEN [error |-> "Time series correlation analysis failed: "
                          \o r.raised]
        ELSE r

\* The frames of the calls: a target psi, a numeric column temperature and
\* a text column station over three or four rows, with and without missing
\* values.
PsiSeries ==
    { <<1, 2, 3>>, <<3, 1, 2>>, <<4, 4, 4>>, <<NaN, 2, 5>>,
      <<1, 2, 3, 4>>, <<2, 5, 1, 3>>, <<NaN, 1, 4, 2>>, <<NaN, NaN, 1, 4>> }

TemperatureSeries ==
    { <<1, 2, 3>>, <<2, 3, 1>>, <<5, 5, 5>>, <<1, NaN, 2>>,
      <<1, 2, 3, 4>>, <<4, 1, 3, 2>>, <<3, 1, 2, NaN>> }

PsiName == << "p", "s", "i" >>

TemperatureName == << "t", "e", "m", "p" >>

StationName == << "s", "t", "a", "t", "i", "o", "n" >>

StationSeries(n) == [i \in 1..n |-> i]

TimeSeriesFrames ==
    { NotAFrame, Frame(<< >>) }
      \cup { Frame(<< Column(PsiName, "number", pt[1], FALSE),
                      Column(TemperatureName, "number", pt[2], FALSE),
                      Column(StationName, "object",
                             StationSeries(Len(pt[1])), FALSE) >>) :
               pt \in {q \in PsiSeries \X TemperatureSeries :
                          Len(q[1]) = Len(q[2])} }
      \cup { Frame(<< Column(TemperatureName, "number", t, FALSE) >>) :
               t \in TemperatureSeries }
      \cup { Frame(<< Column(PsiName, "object", StationSeries(Len(t)), FALSE),
                      Column(TemperatureName, "number", t, FALSE) >>) :
               t \in TemperatureSeries }

LagPeriodChoices ==
    { NotAList, ListOf(<< >>), ListOf(<< 0 >>), ListOf(<< 1 >>),
      ListOf(<< 1, 2 >>), ListOf(<< 2, 1, 1 >>) }

TimeSeriesCalls ==
    [function : {"analyze_time_series_correlations"},
     data : TimeSeriesFrames,
     target_variable : {"psi", "co2"},
     lag_periods : LagPeriodChoices]

TimeSeriesInit ==
    /\ corr_args \in TimeSeriesCalls
    /\ corr_result = NoResult
    /\ corr_earlier = NoResult

\* One call of analyze_time_series_correlations with the arguments of the
\* state.
AnalyzeTimeSeriesCorrelations ==
    /\ now < MaxClock
    /\ corr_result' =
          analyze_time_series_correlations(
              corr_args.data, corr_args.target_variable,
              corr_args.lag_periods, now + 1)
    /\ corr_earlier' = corr_result
    /\ now' = now + 1
    /\ UNCHANGED <<corr_args, exceptCorrelation>>

InitTimeSeries ==
    /\ now = 0
    /\ TimeSeriesInit
    /\ MatrixIdle
    /\ AIInit
    /\ ConnectorIdle
    /\ AppIdle
    /\ UtilsIdle
    /\ ExportIdle
    /\ VizIdle

NextTimeSeries == AnalyzeTimeSeriesCorrelations

SpecTimeSeries == InitTimeSeries /\ [][NextTimeSeries]_vars

\* ------------------------------------------------------------------------
\* correlation_analysis.py: calculate_regional_environmental_correlations
\* ------------------------------------------------------------------------

\* None where a frame is expected.
NoneFrame == [isframe |-> FALSE, columns |-> << >>, none |-> TRUE]

\* df is None
IsNoneFrame(df) == "none" \in DOMAIN df

\* One entry of regional_data.
RegionEntry(region, df) == [region |-> region, df |-> df]

\* Line 164: df is not None and not df.empty.
EntersAnalysis(df) == ~IsNoneFrame(df) /\ ~FrameEmpty(df)

\* Lines 166-167: the copy with its column 'region' set to the region; a
\* column of that name in df is replaced.
WithoutRegionColumn(df) ==
    SelectSeq(df.columns, LAMBDA c : str_join(c.name) # "region")

\* The values of a column of one frame in the concatenation: missing in
\* every row when the frame lacks the column.
ValuesIn(df, name) ==
    LET cols == WithoutRegionColumn(df)
        at == {i \in DOMAIN cols : cols[i].name = name}
    IN  IF at = {} THEN [r \in 1..RowCount(df) |-> NaN]
        ELSE cols[CHOOSE i \in at : TRUE].values

\* The dtype of a column of the concatenation: numeric when it is numeric
\* in every frame that has it.
ConcatDtype(combined_data, name) ==
    IF \A k \in DOMAIN combined_data :
          \A c \in Range(WithoutRegionColumn(combined_data[k].df)) :
             c.name = name => c.dtype = "number"
    THEN "number" ELSE "object"

\* Line 174: pd.concat(combined_data, ignore_index=True); region holds the
\* column 'region', one label per row.
ConcatFrames(combined_data) ==
    LET names == Dedup(Flatten(
                   [k \in DOMAIN combined_data |->
                      LET cols == WithoutRegionColumn(combined_data[k].df)
                      IN  [i \in DOMAIN cols |-> cols[i].name]]))
    IN  [isframe |-> TRUE,
         columns |->
            [j \in DOMAIN names |->
                Column(names[j], ConcatDtype(combined_data, names[j]),
                       Flatten([k \in DOMAIN combined_data |->
                                  ValuesIn(combined_data[k].df, names[j])]),
                       FALSE)],
         region |->
            Flatten([k \in DOMAIN combined_data |->
                       [r \in 1..RowCount(combined_data[k].df) |->
                           combined_data[k].region]])]

\* Line 183: the Pearson coefficient of two columns over the rows that
\* have both, in hundredths.
RegionalCorr(full_data, a, b) ==
    LET both == {r \in DOMAIN a.values :
                   a.values[r] # NaN /\ b.values[r] # NaN}
    IN  PearsonCoef(SelectRows(a.values, both), SelectRows(b.values, both))

\* Series.mean() in hundredths, NaN without a value.
ColumnMean(values) ==
    LET xs == NonNull(values)
    IN  IF xs = << >> THEN NaN ELSE (100 * SeqSum(xs)) \div Len(xs)

\* Series.std() in hundredths, NaN for fewer than two values.
ColumnStd(values) ==
    LET n == Len(NonNull(values))
    IN  IF n < 2 THEN NaN
        ELSE Sqrt100(ScaledVariance(values), n * (n - 1))

\* The rows of full_data whose 'region' is the region (line 188).
RegionRows(full_data, region) ==
    {r \in DOMAIN full_data.region : full_data.region[r] = region}

\* Lines 190-194: the statistics of the rows of one region.
RegionStatistics(full_data, numeric_columns, rows) ==
    [mean_values |->
        [name \in Range(numeric_columns) |->
            ColumnMean(SelectRows(ColumnOf(full_data, name).values, rows))],
     std_values |->
        [name \in Range(numeric_columns) |->
            ColumnStd(SelectRows(ColumnOf(full_data, name).values, rows))],
     data_points |-> Cardinality(rows)]

\* Line 200: list(regional_data.keys()).
RegionalKeys(regional_data) ==
    [i \in DOMAIN regional_data.items |-> regional_data.items[i].region]

\* Lines 160-203, the body of the try block.  A value that is neither None
\* nor a frame has no attribute empty.
RegionalBody(regional_data, clock) ==
    IF ~regional_data.isdict THEN Raise("AttributeError: items")
    ELSE IF \E i \in DOMAIN regional_data.items :
               /\ ~IsNoneFrame(regional_data.items[i].df)
               /\ ~regional_data.items[i].df.isframe
    THEN Raise("AttributeError: empty")
    ELSE
      LET combined_data == SelectSeq(regional_data.items,
                                     LAMBDA it : EntersAnalysis(it.df))
          full_data == ConcatFrames(combined_data)
          numeric ==
            SelectSeq(full_data.columns, LAMBDA c : c.dtype = "number")
          numeric_columns == [i \in DOMAIN numeric |-> str_join(numeric[i].name)]
          regions == Range(RegionalKeys(regional_data))
          regional_stats ==
            [region \in {g \in regions : RegionRows(full_data, g) # {}} |->
                RegionStatistics(full_data, numeric_columns,
                                 RegionRows(full_data, region))]
      IN  IF combined_data = << >>
          THEN [error |-> "No regional data available for analysis"]
          ELSE IF Len(numeric_columns) < 2
          THEN [error |->
                  "Insufficient numeric variables for correlation analysis"]
          ELSE
            [regional_correlation_matrix |->
                [a \in Range(numeric_columns) |->
                   [b \in Range(numeric_columns) |->
                      RegionalCorr(full_data, ColumnOf(full_data, a),
                                   ColumnOf(full_data, b))]],
             regional_statistics |-> regional_stats,
             total_data_points |-> RowCount(full_data),
             regions_analyzed |-> RegionalKeys(regional_data),
             variables_analyzed |-> numeric_columns,
             analysis_timestamp |-> clock]

\* calculate_regional_environmental_correlations: the try block and the
\* except clause of lines 205-206.
calculate_regional_environmental_correlations(regional_data, clock) ==
    LET r == RegionalBody(regional_data, clock)
    IN  IF IsRaise(r)
        THEN [error |-> "Regional correlation analysis failed: " \o r.raised]
        ELSE r

\* The frames of a region: None, a value that is no frame, frames without
\* rows or without columns, and frames of one to three rows over the
\* columns psi, pm25 and station.
Pm25Name == << "p", "m", "2", "5" >>

RegionFrames ==
    { NoneFrame, NotAFrame, Frame(<< >>),
      Frame(<< Column(PsiName, "number", << >>, FALSE),
               Column(Pm25Name, "number", << >>, FALSE) >>),
      Frame(<< Column(PsiName, "number", << 50 >>, FALSE),
               Column(Pm25Name, "number", << 12 >>, FALSE) >>),
      Frame(<< Column(PsiName, "number", << 40, 60 >>, FALSE),
               Column(Pm25Name, "number", << 10, NaN >>, FALSE),
               Column(StationName, "object", << 1, 2 >>, FALSE) >>),
      Frame(<< Column(PsiName, "number", << 30, 50, 80 >>, FALSE) >>),
      Frame(<< Column(Pm25Name, "number", << 20, 5, 9 >>, FALSE),
               Column(PsiName, "object", << 1, 2, 3 >>, FALSE) >>),
      Frame(<< Column(PsiName, "number", << NaN, NaN >>, FALSE),
               Column(Pm25Name, "number", << NaN, NaN >>, FALSE) >>) }

RegionNames == << "north", "south", "east" >>

\* regional_data: no dict, or a dict of one to three regions.
RegionalData ==
    { [isdict |-> FALSE, items |-> << >>],
      [isdict |-> TRUE, items |-> << >>] }
      \cup UNION { { [isdict |-> TRUE,
                      items |-> [i \in 1..n |->
                                   RegionEntry(RegionNames[i], f[i])]] :
                       f \in [1..n -> RegionFrames] } : n \in 1..3 }

RegionalCalls ==
    [function : {"calculate_regional_environmental_correlations"},
     regional_data : RegionalData]

RegionalInit ==
    /\ corr_args \in RegionalCalls
    /\ corr_result = NoResult
    /\ corr_earlier = NoResult

\* One call of calculate_regional_environmental_correlations with the
\* arguments of the state.
CalculateRegionalEnvironmentalCorrelations ==
    /\ now < MaxClock
    /\ corr_result' =
          calculate_regional_environmental_correlations(
              corr_args.regional_data, now + 1)
    /\ corr_earlier' = corr_result
    /\ now' = now + 1
    /\ UNCHANGED <<corr_args, exceptCorrelation>>

InitRegional ==
    /\ now = 0
    /\ RegionalInit
    /\ MatrixIdle
    /\ AIInit
    /\ ConnectorIdle
    /\ AppIdle
    /\ UtilsIdle
    /\ ExportIdle
    /\ VizIdle

NextRegional == CalculateRegionalEnvironmentalCorrelations

SpecRegional == InitRegional /\ [][NextRegional]_vars

\* ------------------------------------------------------------------------
\* Properties
\* ------------------------------------------------------------------------

\* The fixed shape of the error dict of calculate_cross_country_correlations.
HasErrorShape(r) ==
    /\ IsError(r)
    /\ r.correlation_matrix = None
    /\ r.strong_positive = << >>
    /\ r.strong_negative = << >>
    /\ r.p_values = EmptyDict

\* Entry i of the data dict yields values for the variables of lst.
Contributes(a, i, key, lst) ==
    /\ a.data.items[i].isdict
    /\ a.data.items[i][key] = "frame"
    /\ lst.islist
    /\ lst.items # << >>

\* A step throws: data is no dict, a variable list that is None is
\* iterated, or the method is no string.
SomeStepThrows(a) ==
    \/ ~a.data.isdict
    \/ \E i \in DOMAIN a.data.items :
          /\ a.data.items[i].isdict
          /\ \/ a.data.items[i].environmental = "frame" /\ ~a.primary_vars.islist
             \/ a.data.items[i].economic = "frame" /\ ~a.secondary_vars.islist
    \/ a.method = None

\* The prepared matrix has no row or no numeric column.
PreparedMatrixEmpty(a) ==
    /\ a.data.isdict
    /\ \A i \in DOMAIN a.data.items :
          /\ ~Contributes(a, i, "environmental", a.primary_vars)
          /\ ~Contributes(a, i, "economic", a.secondary_vars)

\* C1: calculate_cross_country_correlations never raises, and when the
\* prepared matrix is empty or a step throws it returns the dict with an
\* 'error' message, correlation_matrix None, strong_positive [],
\* strong_negative [] and p_values {}.
C1_NeverRaisesErrorDict ==
    ~IsPending(corr_result) =>
        /\ ~IsRaise(corr_result)
        /\ (PreparedMatrixEmpty(corr_args) \/ SomeStepThrows(corr_args))
              => HasErrorShape(corr_result)
        /\ IsError(corr_result) => HasErrorShape(corr_result)

\* A call with usable frames whose method is no string: the exception of
\* method.lower() became the error dict.
C1_Witness ==
    /\ IsError(corr_result)
    /\ corr_args.method = None
    /\ ~PreparedMatrixEmpty(corr_args)
    /\ corr_args.data.isdict

\* The unordered pairs of distinct columns, as index pairs i < j.
ColumnPairs(columns) ==
    {pr \in (1..Len(columns)) \X (1..Len(columns)) : pr[1] < pr[2]}

\* How often a list of correlation entries names the pair of columns.
TimesReported(list, c1, c2) ==
    Cardinality({k \in DOMAIN list : Range(list[k].variables) = {c1, c2}})

\* C2: with the default threshold 0.7, an unordered pair of distinct
\* variables is reported if and only if |coefficient| >= 0.7 and
\* p-value < 0.05; such a pair is reported exactly once, in strong_positive
\* when the coefficient is > 0 and in strong_negative otherwise, never in
\* both; and nothing else is reported.
C2_StrongPairsReportedOnce ==
    ~IsPending(strong_out) =>
        LET columns == matrix_in.columns
            m == matrix_in.correlation_matrix
            pv == matrix_in.p_values
        IN  /\ \A pr \in ColumnPairs(columns) :
                 LET c1 == columns[pr[1]]
                     c2 == columns[pr[2]]
                     r == m[c1][c2]
                     p == pv[c1][c2]
                     qualifies == /\ r # NaN /\ p # NaN
                                  /\ (r >= 70 \/ r <= -70)
                                  /\ p < 50
                     npos == TimesReported(strong_out.strong_positive, c1, c2)
                     nneg == TimesReported(strong_out.strong_negative, c1, c2)
                 IN  /\ (qualifies /\ r > 0) => (npos = 1 /\ nneg = 0)
                     /\ (qualifies /\ r <= 0) => (npos = 0 /\ nneg = 1)
                     /\ ~qualifies => (npos = 0 /\ nneg = 0)
            /\ Len(strong_out.strong_positive) + Len(strong_out.strong_negative)
                 <= Cardinality(ColumnPairs(columns))
            /\ \A k \in DOMAIN strong_out.strong_positive :
                 \E pr \in ColumnPairs(columns) :
                    Range(strong_out.strong_positive[k].variables)
                      = {columns[pr[1]], columns[pr[2]]}
            /\ \A k \in DOMAIN strong_out.strong_negative :
                 \E pr \in ColumnPairs(columns) :
                    Range(strong_out.strong_negative[k].variables)
                      = {columns[pr[1]], columns[pr[2]]}

\* Three columns with a pair at exactly 0.7 reported as positive, a pair at
\* exactly -0.7 reported as negative, and a strong pair that is not
\* significant left out.
C2_Witness ==
    /\ ~IsPending(strong_out)
    /\ Len(matrix_in.columns) = 3
    /\ Len(strong_out.strong_positive) = 1
    /\ Len(strong_out.strong_negative) = 1
    /\ strong_out.strong_positive[1].coefficient = 70
    /\ strong_out.strong_negative[1].coefficient = -70
    /\ \E pr \in ColumnPairs(matrix_in.columns) :
          /\ matrix_in.correlation_matrix
                [matrix_in.columns[pr[1]]][matrix_in.columns[pr[2]]] = 100
          /\ matrix_in.p_values
                [matrix_in.columns[pr[1]]][matrix_in.columns[pr[2]]] = 50

\* C3: two calls with the same data, primary_vars, secondary_vars and
\* method return the same correlation_matrix, p_values, strong_positive
\* and strong_negative.
C3_SameArgumentsSameCorrelations ==
    (IsSuccess(corr_earlier) /\ IsSuccess(corr_result)) =>
        /\ corr_earlier.correlation_matrix = corr_result.correlation_matrix
        /\ corr_earlier.p_values = corr_result.p_values
        /\ corr_earlier.strong_positive = corr_result.strong_positive
        /\ corr_earlier.strong_negative = corr_result.strong_negative

\* C4: for n variables total_correlations = n(n-1)/2,
\* significant_correlations is the number of unordered pairs of distinct
\* variables with p-value below alpha, significant <= total, and
\* significance_rate = significant / total lies in [0, 1] (0 when there is
\* no pair).
C4_SignificanceCountsUnorderedPairs ==
    ~IsPending(signif_out) =>
        LET columns == matrix_in.columns
            n == Len(columns)
            pv == matrix_in.p_values
            below == {pr \in ColumnPairs(columns) :
                         LET p == pv[columns[pr[1]]][columns[pr[2]]]
                         IN  p # NaN /\ p < 50}
            total == signif_out.total_correlations
            sig == signif_out.significant_correlations
            rate == signif_out.significance_rate
        IN  /\ 2 * total = n * (n - 1)
            /\ sig = Cardinality(below)
            /\ sig <= total
            /\ rate.den > 0
            /\ 0 <= rate.num /\ rate.num <= rate.den
            /\ rate.num * total = sig * rate.den
            /\ (total = 0 => rate.num = 0)

\* Three variables, three pairs, of which exactly two are significant.
C4_Witness ==
    /\ ~IsPending(signif_out)
    /\ Len(matrix_in.columns) = 3
    /\ signif_out.total_correlations = 3
    /\ signif_out.significant_correlations = 2

\* The call of the state is one of the three methods that return the
\* decoded JSON as it is.
IsPassThroughCall ==
    /\ ai_call # Idle
    /\ ai_call.method \in {"parse_natural_language_query",
                           "generate_query_response",
                           "generate_environmental_insights"}

\* The API answered the request of the state with a JSON object.
AnsweredWithObject ==
    /\ ai_request.sent
    /\ ~ai_reply.raises
    /\ ai_reply.content.kind = "object"

\* C5: when the LLM call succeeds, parse_natural_language_query,
\* generate_query_response and generate_environmental_insights return
\* exactly the JSON object of the response: its keys are the keys of the
\* object, no more and no fewer, each with the value the object gives it.
C5_PassThroughReturnsTheJsonObject ==
    (IsPassThroughCall /\ AnsweredWithObject) =>
        LET pairs == ai_reply.content.pairs
        IN  /\ ai_result.type = "dict"
            /\ DOMAIN ai_result.value = {pairs[i][1] : i \in DOMAIN pairs}
            /\ \A i \in DOMAIN pairs :
                  (\A j \in DOMAIN pairs : pairs[j][1] = pairs[i][1] => j <= i)
                      => ai_result.value[pairs[i][1]] = pairs[i][2]

\* generate_query_response returned the two keys of the LLM's object, one
\* of them 'error', untouched.
C5_Witness ==
    /\ IsPassThroughCall
    /\ AnsweredWithObject
    /\ ai_call.method = "generate_query_response"
    /\ ai_result.type = "dict"
    /\ DOMAIN ai_result.value = {"error", "analysis_metadata"}
    /\ ai_result.value["analysis_metadata"] = "b"

\* The data argument of the call of the state, if it has one.
CallData ==
    IF ai_call.method = "generate_query_response"
    THEN ai_call.args.query_results
    ELSE IF ai_call.method = "parse_natural_language_query"
    THEN DictOf(<< >>)
    ELSE ai_call.args.data

\* Summarising the data, the LLM request or the JSON decoding failed.
AIStepFailed ==
    \/ ~CallData.isdict
    \/ \E i \in DOMAIN CallData.items : ~CallData.items[i].isstr
    \/ ai_reply.raises
    \/ ai_reply.content.kind \in {"none", "invalid"}

\* The keys of the default dict of each method.
DefaultKeys(method) ==
    CASE method = "analyze_hypothesis" ->
           {"error", "hypothesis_assessment", "interpretation",
            "confidence_score", "data_points"}
      [] method = "parse_natural_language_query" ->
           {"error", "data_sources", "variables", "analysis_type"}
      [] method = "generate_query_response" ->
           {"error", "insights", "key_findings", "recommendations"}
      [] OTHER ->
           {"error", "overall_environmental_status", "data_confidence"}

\* C6: no public method of AIAnalysisEngine raises, and when summarising
\* the data, the LLM request or the JSON decoding fails the method returns
\* its default dict with an 'error' key: for analyze_hypothesis with
\* confidence_score 0.0 and data_points 0, for
\* parse_natural_language_query with data_sources [] and analysis_type
\* 'unknown'.
C6_NeverRaisesDefaultDict ==
    ai_call # Idle =>
        /\ ~IsRaise(ai_result)
        /\ AIStepFailed =>
              /\ ai_result.type = "dict"
              /\ DOMAIN ai_result.value = DefaultKeys(ai_call.method)
              /\ ai_call.method = "analyze_hypothesis" =>
                    /\ ai_result.value.confidence_score = 0
                    /\ ai_result.value.data_points = 0
              /\ ai_call.method = "parse_natural_language_query" =>
                    /\ ai_result.value.data_sources = << >>
                    /\ ai_result.value.analysis_type = "unknown"

\* parse_natural_language_query sent its request and the API raised: the
\* method returned its default dict.
C6_Witness ==
    /\ ai_call # Idle
    /\ ai_call.method = "parse_natural_language_query"
    /\ ai_request.sent
    /\ ai_reply.raises
    /\ ai_result.type = "dict"
    /\ ai_result.value.analysis_type = "unknown"

\* C7: no call of an AIAnalysisEngine method, successful or failed,
\* changes the engine's fields or the caller's data argument, and a call
\* with the arguments of the call before it sends the same request.
C7_EngineStateless ==
    ai_call # Idle =>
        /\ engine = AIAnalysisEngine
        /\ ai_call.method # "parse_natural_language_query"
              => ai_data = CallData
        /\ (ai_earlier # Idle /\ ai_earlier.call = ai_call)
              => ai_earlier.request = ai_request

\* analyze_hypothesis called twice with the same arguments: both calls
\* sent a request, and the latest returned the decoded object with its
\* metadata.
C7_Witness ==
    /\ ai_call # Idle
    /\ ai_earlier # Idle
    /\ ai_earlier.call = ai_call
    /\ ai_call.method = "analyze_hypothesis"
    /\ ai_earlier.request.sent
    /\ ai_request.sent
    /\ ~IsRaise(ai_result)
    /\ ai_result.type = "dict"
    /\ "analysis_metadata" \in DOMAIN ai_result.value

\* s is an initial segment of t.
IsPrefix(s, t) ==
    /\ Len(s) <= Len(t)
    /\ \A i \in DOMAIN s : s[i] = t[i]

\* The endpoints whose response the call has dealt with.
Handled == {conn_done[k].endpoint : k \in DOMAIN conn_done}

\* C8: the connectors issue their GETs one after the other: at most one
\* request is in flight, a request is issued only when the response to the
\* one before it has been received and dealt with, and the requests of
\* get_weather_data go to the temperature, humidity and rainfall
\* endpoints in that order.
C8_RequestsSequential ==
    /\ Cardinality(conn_inflight) <= 1
    /\ \A k \in DOMAIN conn_log :
          k < Len(conn_log) => conn_log[k] \in Handled
    /\ conn_call.method = "get_weather_data" =>
          IsPrefix(conn_log, << temperature_url, humidity_url, rainfall_url >>)

\* get_weather_data has issued its third request after a temperature
\* response with readings and a humidity response that was not 200.
C8_Witness ==
    /\ conn_call.method = "get_weather_data"
    /\ conn_log = << temperature_url, humidity_url, rainfall_url >>
    /\ conn_inflight = {rainfall_url}
    /\ conn_done = << [endpoint |-> temperature_url, disposition |-> "records"],
                      [endpoint |-> humidity_url, disposition |-> "skip"] >>

\* C9: in one call of a connector method no endpoint or indicator is
\* requested twice, so a request that failed or was answered with a status
\* other than 200 is not issued again.
C9_NoRetry ==
    \A i, j \in DOMAIN conn_log : conn_log[i] = conn_log[j] => i = j

\* get_environmental_indicators has returned a frame after requesting
\* each of its nine indicators once, the first of them having failed.
C9_Witness ==
    /\ conn_call.method = "get_environmental_indicators"
    /\ conn_pc = AtReturn
    /\ Len(conn_log) = 9
    /\ conn_done[1].disposition = "skip"
    /\ ~conn_result.isnone
    /\ Len(conn_result.rows) = 8

\* C10: st.session_state.data_cache is created empty by the first run of
\* the script and is empty in every state that page selections and button
\* clicks reach.
C10_DataCacheStaysEmpty ==
    app_view # Idle =>
        /\ "data_cache" \in DOMAIN session_state
        /\ DOMAIN session_state["data_cache"] = {}

\* The Data Explorer page has loaded the weather data in a session that
\* holds the results of two hypotheses: the cache is still empty.
C10_Witness ==
    /\ app_view # Idle
    /\ app_view.page = "Data Explorer"
    /\ app_view.weather = "loaded"
    /\ Cardinality(DOMAIN session_state["analysis_results"]) = 2
    /\ DOMAIN session_state["data_cache"] = {}

\* The argument is a datetime or a string that pd.to_datetime accepts.
IsDateInput(date) ==
    \/ date.type = "datetime"
    \/ date.type = "str" /\ date.parseable

\* Validation throws: an argument cannot be parsed or compared.
DateValidationThrows(start_date, end_date) ==
    \/ ~IsDateInput(start_date)
    \/ ~IsDateInput(end_date)
    \/ start_date.aware
    \/ end_date.aware

\* C11: for datetimes or parseable date strings in either order
\* validate_date_range returns (start, end) with start <= end and
\* end <= now, and when validation throws it returns the last 30 days.
C11_DateRangeOrderedNotFuture ==
    (~IsPending(util_result) /\ util_call.function = "validate_date_range") =>
        /\ (/\ IsDateInput(util_call.start_date)
            /\ IsDateInput(util_call.end_date))
              => /\ util_result.returned.start.day
                       <= util_result.returned.end.day
                 /\ util_result.returned.end.day <= now
        /\ DateValidationThrows(util_call.start_date, util_call.end_date)
              => /\ util_result.returned.end.day = now
                 /\ util_result.returned.start.day = now - 30

\* The arguments came in reverse order, the later one in the future: the
\* call returned the earlier date as start and now as end.
C11_Witness ==
    /\ ~IsPending(util_result)
    /\ util_call.function = "validate_date_range"
    /\ util_call.start_date = DateString(Today + 45, FALSE, TRUE)
    /\ util_call.end_date = DateTime(Today - 31, FALSE)
    /\ util_result.returned.start.day = Today - 31
    /\ util_result.returned.end.day = Today

\* The name is the key with white space around it, in any letter case.
EqualsIgnoringCaseAndSpace(name, key) ==
    \E i, j \in 0..Len(name) :
        /\ i + Len(key) + j = Len(name)
        /\ \A k \in 1..i : name[k] \in Whitespace
        /\ \A k \in 1..j : name[Len(name) + 1 - k] \in Whitespace
        /\ \A k \in 1..Len(key) : LowerChar(name[i + k]) = LowerChar(key[k])

\* C12: standardize_country_names returns a list without duplicates, and
\* every input that equals an ASEAN country name or a listed alias, but for
\* letter case and surrounding white space, is represented in it by the
\* canonical name of that country.
C12_CanonicalNamesNoDuplicates ==
    (~IsPending(util_result)
        /\ util_call.function = "standardize_country_names") =>
        /\ \A i, j \in DOMAIN util_result.returned :
              util_result.returned[i] = util_result.returned[j] => i = j
        /\ \A c \in DOMAIN util_call.countries :
              \A m \in DOMAIN country_mapping :
                 EqualsIgnoringCaseAndSpace(util_call.countries[c],
                                            country_mapping[m][1])
                    => country_mapping[m][2] \in Range(util_result.returned)

\* ' sg ' and 'Singapore' came out as the one name Singapore.
C12_Witness ==
    /\ ~IsPending(util_result)
    /\ util_call.function = "standardize_country_names"
    /\ util_call.countries = << << " ", "s", "g", " " >>, << "S", "i", "n", "g", "a", "p", "o", "r", "e" >> >>
    /\ util_result.returned =
          << << "S", "i", "n", "g", "a", "p", "o", "r", "e" >> >>

\* The calculation of the quality score throws: the argument is no
\* frame, or it has rows and a numeric column name occurs twice.
QualityScoreThrows(data) ==
    \/ ~data.isframe
    \/ /\ ~FrameEmpty(data)
       /\ \E i \in NumericColumns(data) : NameRepeated(data, i)

\* C13: calculate_data_quality_score returns a value in [0, 1]: 0.0 for an
\* empty frame, 0.5 when the calculation throws, and otherwise the mean of
\* a completeness, a consistency and a temporal-coverage score that each
\* lie in [0, 1].  Scores are in hundredths.
C13_QualityScoreInUnitInterval ==
    (~IsPending(util_result)
        /\ util_call.function = "calculate_data_quality_score") =>
        LET data == util_call.data
            score == util_result.returned
        IN  /\ 0 <= score /\ score <= 100
            /\ (data.isframe /\ FrameEmpty(data)) => score = 0
            /\ QualityScoreThrows(data) => score = 50
            /\ (data.isframe /\ ~FrameEmpty(data) /\ ~QualityScoreThrows(data))
                  => LET completeness == Completeness(data)
                         consistency == Consistency(data).score
                         temporal == TemporalCoverage(data)
                     IN  /\ 0 <= completeness /\ completeness <= 100
                         /\ 0 <= consistency /\ consistency <= 100
                         /\ 0 <= temporal /\ temporal <= 100
                         /\ score = (completeness + consistency + temporal)
                                      \div 3

\* A frame whose numeric column has a mean eleven times its deviation and
\* whose time column has three points in two days: every score is 1.0
\* but the completeness, and so is not the result.
C13_Witness ==
    /\ ~IsPending(util_result)
    /\ util_call.function = "calculate_data_quality_score"
    /\ Len(util_call.data.columns) = 3
    /\ InverseCV(util_call.data.columns[1].values) > 100
    /\ Consistency(util_call.data).score = 100
    /\ TemporalCoverage(util_call.data) = 100
    /\ Completeness(util_call.data) < 100
    /\ util_result.returned = 96


\* The value has the expected type: the expected type is a class and the
\* class of the value is that class or one of its subclasses.
HasExpectedType(value, expected_type) ==
    expected_type.isclass /\ expected_type.name \in ClassMro(value.class)

\* C14: validate_api_response returns True exactly when response_data is a
\* dict and every field of expected_structure is present in it with a
\* value of the expected type; in every other case it returns False and
\* does not raise.  Fields beyond the expected ones do not matter.
C14_ValidIffFieldsPresentAndTyped ==
    (~IsPending(util_result)
        /\ util_call.function = "validate_api_response") =>
        LET response_data == util_call.response_data
            expected == util_call.expected_structure
        IN  /\ util_result.returned \in BOOLEAN
            /\ expected.isdict =>
                 util_result.returned =
                    /\ response_data.class = "dict"
                    /\ \A k \in DOMAIN expected.items :
                          /\ expected.items[k][1]
                                \in DOMAIN response_data.items
                          /\ HasExpectedType(
                                 response_data.items[expected.items[k][1]],
                                 expected.items[k][2])

\* A response with a bool where an int is expected and a field nobody
\* expects is valid.
C14_Witness ==
    /\ ~IsPending(util_result)
    /\ util_call.function = "validate_api_response"
    /\ util_call.response_data.class = "dict"
    /\ DOMAIN util_call.response_data.items = ResponseFields
    /\ util_call.response_data.items["status"] = PyValue("bool")
    /\ util_call.expected_structure =
           Structure(<< <<"status", PyClass("int")>>,
                        <<"data", PyClass("str")>> >>)
    /\ util_result.returned = TRUE


\* Cleaning fails: the argument is no frame, or the name of a numeric
\* column of the copy occurs twice once the names are standardized.
CleaningThrows(frame) ==
    \/ ~frame.isframe
    \/ /\ ~FrameEmpty(frame)
       /\ ClipOutliers(
              ConvertTimestampColumns(StandardizeColumnNames(frame)),
              1).raised

\* C15: clean_environmental_data never modifies the frame it is given:
\* after the call the caller's frame has the column names, the values and
\* the rows it had before, whether cleaning succeeds, the frame is empty
\* or cleaning fails; an empty frame and a failure return the frame
\* given.
C15_CleaningLeavesTheFrameGiven ==
    (util_call # Idle /\ util_call.function = "clean_environmental_data") =>
        /\ util_heap[util_call.data] = util_call.frame
        /\ ~IsPending(util_result) =>
              ((CleaningThrows(util_call.frame)
                   \/ FrameEmpty(util_call.frame))
                 => util_result.returned = util_call.data)

\* Cleaning renamed the columns, made the date column a datetime column
\* and dropped the row without values, in a frame that is not the
\* caller's.
C15_Witness ==
    /\ ~IsPending(util_result)
    /\ util_call # Idle
    /\ util_call.function = "clean_environmental_data"
    /\ util_result.returned # util_call.data
    /\ RowCount(util_heap[util_result.returned])
         < RowCount(util_call.frame)
    /\ \E i \in DOMAIN util_call.frame.columns :
          /\ util_heap[util_result.returned].columns[i].name
               # util_call.frame.columns[i].name
          /\ util_heap[util_result.returned].columns[i].dtype
               # util_call.frame.columns[i].dtype

\* The grammar of JSON (RFC 8259) over tokens: the position after the
\* value that starts at position i, or 0 when none starts there.  NaN,
\* Infinity and -Infinity are no JSON values.
RECURSIVE ValueEnd(_, _), ElementsEnd(_, _), MembersEnd(_, _)
ValueEnd(tokens, i) ==
    IF i > Len(tokens) THEN 0
    ELSE IF tokens[i].t \in {"null", "true", "false", "number", "string"}
    THEN i + 1
    ELSE IF tokens[i].t = "["
    THEN IF i < Len(tokens) /\ tokens[i + 1].t = "]" THEN i + 2
         ELSE ElementsEnd(tokens, i + 1)
    ELSE IF tokens[i].t = "{"
    THEN IF i < Len(tokens) /\ tokens[i + 1].t = "}" THEN i + 2
         ELSE MembersEnd(tokens, i + 1)
    ELSE 0

ElementsEnd(tokens, i) ==
    LET e == ValueEnd(tokens, i)
    IN  IF e = 0 \/ e > Len(tokens) THEN 0
        ELSE IF tokens[e].t = "," THEN ElementsEnd(tokens, e + 1)
        ELSE IF tokens[e].t = "]" THEN e + 1
        ELSE 0

MembersEnd(tokens, i) ==
    IF i + 1 > Len(tokens) THEN 0
    ELSE IF tokens[i].t # "string" \/ tokens[i + 1].t # ":" THEN 0
    ELSE LET e == ValueEnd(tokens, i + 2)
         IN  IF e = 0 \/ e > Len(tokens) THEN 0
             ELSE IF tokens[e].t = "," THEN MembersEnd(tokens, e + 1)
             ELSE IF tokens[e].t = "}" THEN e + 1
             ELSE 0

IsJsonText(tokens) == ValueEnd(tokens, 1) = Len(tokens) + 1

\* A JSON object with an 'error' message and a timestamp, nothing else.
IsErrorDocument(tokens) ==
    /\ Len(tokens) = 9
    /\ tokens[1] = Token("{")
    /\ tokens[2] = StringToken("error")
    /\ tokens[3] = Token(":")
    /\ tokens[4].t = "string"
    /\ tokens[5] = Token(",")
    /\ tokens[6] \in {StringToken("export_timestamp"),
                      StringToken("report_timestamp")}
    /\ tokens[7] = Token(":")
    /\ tokens[8] = StringToken(isoformat(now))
    /\ tokens[9] = Token("}")

\* The sequence occurs in the tokens.
Occurs(part, tokens) ==
    \E i \in 1..(Len(tokens) - Len(part) + 1) :
        SubSeq(tokens, i, i + Len(part) - 1) = part

\* The results handed to the export and the key the document has them
\* under.
ExportedResults ==
    CASE export_call.method = "export_analysis_results" ->
           << "analysis_results", export_call.analysis_result >>
      [] export_call.method = "export_query_results" ->
           << "query_results", export_call.query_response >>
      [] export_call.method = "export_correlation_analysis" ->
           << "correlation_analysis", export_call.correlation_results >>
      [] OTHER ->
           << "analysis_results", export_call.analysis_results >>

\* A document that opens with the metadata of the export, which carry its
\* timestamp, and that has the results as json.dumps writes them.
IsSuccessDocument(tokens) ==
    /\ Len(tokens) > 9
    /\ tokens[1] = Token("{")
    /\ tokens[2] \in {StringToken("export_metadata"),
                      StringToken("report_metadata")}
    /\ tokens[3] = Token(":")
    /\ tokens[4] = Token("{")
    /\ Occurs(<< StringToken(isoformat(now)) >>, tokens)
    /\ ~IsRaise(json_encode(ExportedResults[2]))
    /\ Occurs(<< StringToken(ExportedResults[1]), Token(":") >>
                \o json_encode(ExportedResults[2]).value,
              tokens)

\* C16: every JSON export of ExportManager returns a JSON string and never
\* raises: the document of a successful export carries the export
\* metadata and the exported results, the document of a failed one is a
\* JSON object with an 'error' message and a timestamp.
C16_ExportReturnsJson ==
    ~IsPending(export_result) =>
        /\ IsJsonText(export_result.returned)
        /\ \/ IsSuccessDocument(export_result.returned)
           \/ IsErrorDocument(export_result.returned)

\* The builders that take one frame.
FrameBuilders ==
    { "create_time_series", "create_psi_chart",
      "create_energy_emissions_chart", "create_epi_comparison",
      "create_psi_regional_view" }

\* The input of the call is empty or missing: a frame without rows or
\* columns or without the columns the chart is of, no matrix, no climate
\* data, no chart data.
InputEmptyOrMissing ==
    \/ /\ viz_call.builder \in FrameBuilders
       /\ viz_call.data.isframe
       /\ \/ FrameEmpty(viz_call.data)
          \/ /\ viz_call.builder = "create_time_series"
             /\ \/ ~HasColumn(viz_call.data, str_join(viz_call.time_col))
                \/ ~HasColumn(viz_call.data, str_join(viz_call.value_col))
          \/ /\ viz_call.builder = "create_psi_regional_view"
             /\ \/ ~HasColumn(viz_call.data, "region")
                \/ ~HasColumn(viz_call.data, "psi_24h")
    \/ /\ viz_call.builder = "create_correlation_heatmap"
       /\ viz_call.correlation_matrix \in {PyNone, EmptyResult}
    \/ /\ viz_call.builder = "create_multi_country_climate_chart"
       /\ viz_call.climate_data \in {PyNone, EmptyResult}
    \/ /\ viz_call.builder = "create_custom_chart"
       /\ viz_call.chart_data = PyNone

\* Building the chart throws: the data is no frame, a region to be named
\* is a number, a PSI value to be compared is a text, the matrix is a
\* frame or holds a number or a text where a dict or a number belongs,
\* the climate data is a list, a series of the chart data is a number.
BuildingThrows ==
    \/ /\ viz_call.builder \in FrameBuilders
       /\ ~viz_call.data.isframe
    \/ /\ viz_call.builder = "create_psi_chart"
       /\ viz_call.data.isframe
       /\ ~FrameEmpty(viz_call.data)
       /\ HasColumn(viz_call.data, "region")
       /\ HasColumn(viz_call.data, "psi_24h")
       /\ ColumnOf(viz_call.data, "region").dtype = "number"
       /\ NonNull(ColumnOf(viz_call.data, "region").values) # << >>
    \/ /\ viz_call.builder = "create_psi_regional_view"
       /\ viz_call.data.isframe
       /\ ~FrameEmpty(viz_call.data)
       /\ HasColumn(viz_call.data, "region")
       /\ HasColumn(viz_call.data, "psi_24h")
       /\ ColumnOf(viz_call.data, "psi_24h").dtype = "object"
       /\ \E r \in 1..RowCount(viz_call.data) :
             /\ ColumnOf(viz_call.data, "region").values[r] # NaN
             /\ ColumnOf(viz_call.data, "psi_24h").values[r] # NaN
    \/ /\ viz_call.builder = "create_correlation_heatmap"
       /\ \/ viz_call.correlation_matrix.kind = "pd.DataFrame"
          \/ /\ viz_call.correlation_matrix.kind = "dict"
             /\ \E i \in DOMAIN viz_call.correlation_matrix.pairs :
                   LET inner == viz_call.correlation_matrix.pairs[i][2]
                   IN  \/ inner.kind # "dict"
                       \/ \E j \in DOMAIN inner.pairs :
                             inner.pairs[j][2].kind = "str"
    \/ /\ viz_call.builder = "create_multi_country_climate_chart"
       /\ viz_call.climate_data.kind = "list"
       /\ viz_call.climate_data.elems # << >>
    \/ /\ viz_call.builder = "create_custom_chart"
       /\ viz_call.chart_type \in {"line", "bar"}
       /\ HasSeries(viz_call.chart_data)
       /\ \E i \in DOMAIN viz_call.chart_data.pairs :
             /\ viz_call.chart_data.pairs[i][1].text \in {"x", "y"}
             /\ viz_call.chart_data.pairs[i][2].kind # "list"

\* The placeholder chart: no trace, and a message in gray.
IsPlaceholderChart(figure) ==
    /\ figure.kind = "Figure"
    /\ figure.traces = << >>
    /\ Len(figure.annotations) = 1
    /\ figure.annotations[1].color = "gray"

\* The error chart: no trace, and a message in red.
IsErrorChart(figure) ==
    /\ figure.kind = "Figure"
    /\ figure.traces = << >>
    /\ Len(figure.annotations) = 1
    /\ figure.annotations[1].color = "red"

FunctionOfMethod(m) ==
    IF m = "spearman" THEN "Spearman"
    ELSE IF m = "kendall" THEN "Kendall"
    ELSE "Pearson"

\* The p-values of every pair of columns of the frame under function f:
\* 0 on the diagonal, 1 where f raises.
PValuesUnder(frame, f) ==
    LET cols == Range(frame.columns)
    IN  [col1 \in cols |-> [col2 \in cols |->
           IF col1 = col2 THEN 0
           ELSE LET r == CorrFunc(f, DropNa(frame, col1), DropNa(frame, col2))
                IN  IF r.ok THEN r.p ELSE 1000]]

\* The data matrices a call with the arguments of the state can have
\* prepared.
PreparedFrames ==
    { _prepare_correlation_matrix(corr_args.data, corr_args.primary_vars,
                                  corr_args.secondary_vars, draw) :
        draw \in DrawSpace(corr_args) }

\* C18: for every method string, in any letter case or unknown, the
\* p-values of a successful result are those of the correlation method
\* (Pearson, Spearman or Kendall) that computed its correlation matrix:
\* some data matrix of the call has this matrix under that method and these
\* p-values under the same method.
C18_PValuesOfTheMatrixMethod ==
    IsSuccess(corr_result) =>
        \E frame \in PreparedFrames :
           /\ frame.ok
           /\ corr_result.correlation_matrix
                = Corr(frame, MatrixMethod(corr_args.method))
           /\ corr_result.p_values
                = PValuesUnder(frame,
                      FunctionOfMethod(MatrixMethod(corr_args.method)))

\* The method of DataFrame.corr that a method_used string names, letter
\* case aside; a string that names none of the three names no method.
MethodNamed(name) ==
    IF Lower(name) \in {"pearson", "spearman", "kendall"}
    THEN Lower(name) ELSE "<no method>"

\* C19: in a successful result method_used names the correlation method
\* that computed the correlation matrix, for every method string, one that
\* is none of Pearson, Spearman and Kendall included.
C19_MethodUsedNamesTheMatrixMethod ==
    IsSuccess(corr_result) =>
        /\ MethodNamed(corr_result.method_used)
             = MatrixMethod(corr_args.method)
        /\ \E frame \in PreparedFrames :
              /\ frame.ok
              /\ corr_result.correlation_matrix
                   = Corr(frame, MethodNamed(corr_result.method_used))

\* Whether the state holds a call of analyze_time_series_correlations that
\* returned.
TimeSeriesReturned ==
    /\ corr_args # Idle
    /\ "function" \in DOMAIN corr_args
    /\ ~IsPending(corr_result)

\* No value of the frame is missing.
NoMissingValues(data) ==
    \A i \in DOMAIN data.columns : NaN \notin Range(data.columns[i].values)

\* pearsonr of the target against the column shifted by k rows: the pairs
\* (target[i], column[i - k]) of the rows that have both.
PearsonAtLag(target, column, k) ==
    LET n == Len(target)
    IN  pearsonr(SubSeq(target, k + 1, n), SubSeq(column, 1, n - k))

\* C20: when the target column is absent the result is an 'error' dict;
\* otherwise, for a frame without missing values, every lag k of
\* lag_periods and every numeric column c other than the (numeric) target,
\* with more than k + 1 rows, lag_correlations['lag_k'][c] holds the
\* Pearson coefficient and p-value of the target against c shifted by k
\* rows, and significant is true exactly when p < 0.05.
C20_LaggedPearsonReported ==
    TimeSeriesReturned =>
      LET data == corr_args.data
          target_variable == corr_args.target_variable
          lags == Range(corr_args.lag_periods.items)
      IN  /\ (data.isframe /\ ~HasColumn(data, target_variable))
                => IsError(corr_result)
          /\ (/\ data.isframe
              /\ HasColumn(data, target_variable)
              /\ ColumnOf(data, target_variable).dtype = "number"
              /\ corr_args.lag_periods.islist
              /\ NoMissingValues(data))
                => /\ ~IsError(corr_result)
                   /\ \A k \in lags : \A i \in NumericColumns(data) :
                        LET c == str_join(data.columns[i].name)
                            r == PearsonAtLag(
                                   ColumnOf(data, target_variable).values,
                                   data.columns[i].values, k)
                            entry == corr_result.lag_correlations[LagKey(k)][c]
                        IN  (c # target_variable /\ RowCount(data) > k + 1)
                              => /\ r.ok
                                 /\ entry.correlation = r.stat
                                 /\ entry.p_value = r.p
                                 /\ entry.significant = FloatLT(r.p, 50)

\* Whether the state holds a call of
\* calculate_regional_environmental_correlations that returned a result
\* without 'error'.
RegionalSucceeded ==
    /\ corr_args # Idle
    /\ "regional_data" \in DOMAIN corr_args
    /\ IsSuccess(corr_result)

\* The regions of the call whose frame is None or empty.
RegionsWithoutData ==
    {corr_args.regional_data.items[i].region :
        i \in {j \in DOMAIN corr_args.regional_data.items :
                 ~EntersAnalysis(corr_args.regional_data.items[j].df)}}

\* C21: in every successful result of
\* calculate_regional_environmental_correlations, regions_analyzed is
\* exactly the set of regions that have an entry in regional_statistics,
\* total_data_points is the sum of data_points over those entries, and a
\* region whose frame is None or empty is in neither.
C21_RegionsAnalyzedAreTheRegionsWithData ==
    RegionalSucceeded =>
      LET stats == corr_result.regional_statistics
          listed == corr_result.regions_analyzed
          names == RegionalKeys(corr_args.regional_data)
          points == [i \in DOMAIN names |->
                       IF names[i] \in DOMAIN stats
                       THEN stats[names[i]].data_points ELSE 0]
      IN  /\ Range(listed) = DOMAIN stats
          /\ Len(listed) = Cardinality(DOMAIN stats)
          /\ corr_result.total_data_points = SeqSum(points)
          /\ \A region \in RegionsWithoutData :
                region \notin Range(listed) /\ region \notin DOMAIN stats

==========================================================================
